---- MODULE Spec2Model ----
(***************************************************************************)
(* SimpleEnvs: the secure store (SecureEnvLoader), its parsing pipeline,   *)
(* journal, integrity check and wipe, the simple loader that syncs to the  *)
(* process environment, and the module-level convenience API.              *)
(*                                                                         *)
(* Strings are sequences of one-character strings, so that strip, lower,   *)
(* substring search and partition are computed as the code computes them.  *)
(* Timestamps (journal "timestamp", "creation_time") are not modelled.     *)
(***************************************************************************)
EXTENDS Integers, Sequences, FiniteSets, TLC

\* ------------------------------------------------------------------------
\* Program constants
\* ------------------------------------------------------------------------
MAX_KEY_LENGTH == 128
MAX_VALUE_LENGTH == 1024
MAX_LINE_LENGTH == 4096
MAX_FILE_SIZE == 10485760
MAX_ENTRIES == 10000
MAX_SCAN_DEPTH == 3
MaxLines == 10000
MaxLogEntries == 100
MaxPathLength == 1024

\* ------------------------------------------------------------------------
\* Bounds of the model
\* ------------------------------------------------------------------------
\* Per-store cap on the session access counter in the life-cycle specification.
MaxAccess == 4
\* Cap on the access counter in the journal specification (beyond the cap of 100).
MaxJournal == 103
\* Cap on the access counter in the accessor specification.
MaxAccessorCalls == 4
\* Cap on the journal entries of both stores in the environment specification.
MaxEnvAccess == 4

\* ------------------------------------------------------------------------
\* Characters and strings
\* ------------------------------------------------------------------------
\* Characters that cannot be written in a string literal are named tokens.
NUL == "NUL"
BACKTICK == "BQ"
None == <<"<None>">>

Upper == {"A","B","C","D","E","F","G","H","I","J","K","L","M",
          "N","O","P","Q","R","S","T","U","V","W","X","Y","Z"}
LowerLetters == {"a","b","c","d","e","f","g","h","i","j","k","l","m",
                 "n","o","p","q","r","s","t","u","v","w","x","y","z"}
Digits == {"0","1","2","3","4","5","6","7","8","9"}
Whitespace == {" ", "\t"}

UpperSeq == <<"A","B","C","D","E","F","G","H","I","J","K","L","M",
              "N","O","P","Q","R","S","T","U","V","W","X","Y","Z">>
LowerSeq == <<"a","b","c","d","e","f","g","h","i","j","k","l","m",
              "n","o","p","q","r","s","t","u","v","w","x","y","z">>

\* str.lower() on one character
LowerChar(c) ==
  IF c \in Upper
    THEN LowerSeq[CHOOSE i \in 1..26 : UpperSeq[i] = c]
    ELSE c

\* str.lower(), character by character
Lower(s) == CHOOSE r \in {[i \in 1..Len(t) |-> LowerChar(t[i])] \o <<>> : t \in {s}} : TRUE

\* p in s.  (\E t \in {s} names the value of s, so that it is computed once;
\* the operators and actions below use the same idiom for a call's result.)
Contains(s, p) ==
  \E t \in {s} : \E i \in 1..(Len(t) - Len(p) + 1) : SubSeq(t, i, i + Len(p) - 1) = p

\* s.startswith(p), s.endswith(p)
StartsWith(s, p) == Len(s) >= Len(p) /\ SubSeq(s, 1, Len(p)) = p
EndsWith(s, p) == Len(s) >= Len(p) /\ SubSeq(s, Len(s) - Len(p) + 1, Len(s)) = p

\* str.strip()
RECURSIVE LStrip(_)
LStrip(s) == IF s # <<>> /\ Head(s) \in Whitespace THEN LStrip(Tail(s)) ELSE s
RECURSIVE RStrip(_)
RStrip(s) ==
  IF s # <<>> /\ s[Len(s)] \in Whitespace THEN RStrip(SubSeq(s, 1, Len(s) - 1)) ELSE s
Strip(s) == RStrip(LStrip(s))

\* str.replace(c, "") for a single character c
RECURSIVE RemoveChar(_, _)
RemoveChar(s, c) ==
  IF s = <<>> THEN <<>>
  ELSE IF Head(s) = c THEN RemoveChar(Tail(s), c)
  ELSE <<Head(s)>> \o RemoveChar(Tail(s), c)

\* str.isalnum(), str.isdigit() over the modelled (ASCII) alphabet
IsAlnum(s) ==
  s # <<>> /\ \A i \in 1..Len(s) : s[i] \in Upper \cup LowerLetters \cup Digits
IsDigit(s) == s # <<>> /\ \A i \in 1..Len(s) : s[i] \in Digits

\* line.partition("="): index of the first "=", 0 when there is none
FirstEq(s) ==
  IF \E i \in 1..Len(s) : s[i] = "="
    THEN CHOOSE i \in 1..Len(s) : s[i] = "=" /\ \A j \in 1..(i - 1) : s[j] # "="
    ELSE 0

\* ------------------------------------------------------------------------
\* constants.py
\* ------------------------------------------------------------------------
DANGEROUS_PATTERNS == {
  <<"$","(">>,
  <<BACKTICK>>,
  <<"$","{">>,
  <<"<","!","-","-">>,
  <<"<","s","c","r","i","p","t">>,
  <<"<","/","s","c","r","i","p","t",">">>,
  <<"<","i","f","r","a","m","e">>,
  <<"j","a","v","a","s","c","r","i","p","t",":">>,
  <<"d","a","t","a",":">>,
  <<"v","b","s","c","r","i","p","t",":">>,
  <<"o","n","l","o","a","d","=">>,
  <<"o","n","e","r","r","o","r","=">>,
  <<"e","v","a","l","(">>,
  <<"e","x","e","c","(">>,
  <<"_","_","i","m","p","o","r","t","_","_">>,
  <<"s","u","b","p","r","o","c","e","s","s">>,
  <<"o","s",".","s","y","s","t","e","m">>,
  <<"s","h","e","l","l","=","T","r","u","e">> }

script_patterns == {
  <<"<","s","c","r","i","p","t">>,
  <<"<","/","s","c","r","i","p","t",">">>,
  <<"j","a","v","a","s","c","r","i","p","t",":">>,
  <<"v","b","s","c","r","i","p","t",":">> }

TRUE_VALUES == {
  <<"t","r","u","e">>, <<"y","e","s">>, <<"1">>, <<"o","n">>,
  <<"e","n","a","b","l","e">>, <<"e","n","a","b","l","e","d">>,
  <<"a","c","t","i","v","e">>, <<"o","k">>, <<"y">>, <<"t">> }

FALSE_VALUES == {
  <<"f","a","l","s","e">>, <<"n","o">>, <<"0">>, <<"o","f","f">>,
  <<"d","i","s","a","b","l","e">>, <<"d","i","s","a","b","l","e","d">>,
  <<"i","n","a","c","t","i","v","e">>, <<"n">>, <<"f">>,
  <<"n","u","l","l">>, <<"n","o","n","e">>, <<>> }

\* ------------------------------------------------------------------------
\* EnvValue: tagged values.  v is always a string: Python's str() of the value.
\* ------------------------------------------------------------------------
PyTrue == <<"T","r","u","e">>
PyFalse == <<"F","a","l","s","e">>
BoolVal(b) == [t |-> "bool", v |-> IF b THEN PyTrue ELSE PyFalse]
StrVal(s) == [t |-> "str", v |-> s]
NoneVal == [t |-> "none", v |-> None]

DigitSeq == <<"0","1","2","3","4","5","6","7","8","9">>
DigitVal(c) == (CHOOSE i \in 1..10 : DigitSeq[i] = c) - 1

\* Decimal magnitude without leading zeros (at least one digit is kept)
RECURSIVE StripZeros(_)
StripZeros(d) == IF Len(d) > 1 /\ Head(d) = "0" THEN StripZeros(Tail(d)) ELSE d

\* a <= b for two magnitudes without leading zeros
DigitsLeq(a, b) ==
  \/ Len(a) < Len(b)
  \/ /\ Len(a) = Len(b)
     /\ \/ a = b
        \/ \E i \in 1..Len(a) :
             /\ DigitVal(a[i]) < DigitVal(b[i])
             /\ \A j \in 1..(i - 1) : a[j] = b[j]

Max63 == <<"9","2","2","3","3","7","2","0","3","6","8","5","4","7","7","5","8","0","7">>
Min63 == <<"9","2","2","3","3","7","2","0","3","6","8","5","4","7","7","5","8","0","8">>
Past63 == <<"9","2","2","3","3","7","2","0","3","6","8","5","4","7","7","5","8","0","9">>

\* int(value) for [-]digits, as the decimal string Python prints for it
IntStr(value) ==
  LET neg == StartsWith(value, <<"-">>)
      mag == StripZeros(IF neg THEN Tail(value) ELSE value)
  IN IF neg /\ mag # <<"0">> THEN <<"-">> \o mag ELSE mag

\* A range test that admits 2**63 on the positive side as well
InRange64_symmetric(value) ==
  LET neg == StartsWith(value, <<"-">>)
      mag == StripZeros(IF neg THEN Tail(value) ELSE value)
  IN DigitsLeq(mag, Min63)

\* -(2**63) <= int(value) <= 2**63 - 1
InRange64(value) ==
  LET neg == StartsWith(value, <<"-">>)
      mag == StripZeros(IF neg THEN Tail(value) ELSE value)
  IN IF neg THEN DigitsLeq(mag, Min63) ELSE DigitsLeq(mag, Max63)

IntVal(value) == [t |-> "int", v |-> IntStr(value)]

\* value.isdigit() or (value.startswith("-") and value[1:].isdigit())
LooksInteger(value) ==
  IsDigit(value) \/ (StartsWith(value, <<"-">>) /\ IsDigit(Tail(value)))

\* __parse_value_secure that tries the integer form before the boolean sets
parse_value_secure_digits_first(raw) ==
  LET value == Strip(raw)
  IN IF LooksInteger(value)
       THEN IF InRange64(value) THEN IntVal(value) ELSE StrVal(value)
     ELSE IF Lower(value) \in TRUE_VALUES THEN BoolVal(TRUE)
     ELSE IF Lower(value) \in FALSE_VALUES THEN BoolVal(FALSE)
     ELSE StrVal(value)

\* SecureEnvLoader.__parse_value_secure (the alphabet has no unencodable character)
parse_value_secure(raw) ==
  LET value == Strip(raw)
  IN IF Lower(value) \in TRUE_VALUES THEN BoolVal(TRUE)
     ELSE IF Lower(value) \in FALSE_VALUES THEN BoolVal(FALSE)
     ELSE IF LooksInteger(value)
       THEN IF InRange64(value) THEN IntVal(value) ELSE StrVal(value)
     ELSE StrVal(value)

\* SecureEnvLoader.__validate_key_value: "ok" or the error it raises
validate_key_value(key, value) ==
  IF key = <<>> \/ Len(Strip(key)) = 0 THEN "InvalidInputError"
  ELSE IF Len(key) > MAX_KEY_LENGTH THEN "InvalidInputError"
  ELSE IF ~IsAlnum(RemoveChar(RemoveChar(key, "_"), "-")) THEN "InvalidInputError"
  ELSE IF Len(value) > MAX_VALUE_LENGTH THEN "InvalidInputError"
  ELSE IF \E lower \in {Lower(value)} : \E p \in DANGEROUS_PATTERNS : Contains(lower, p)
    THEN "InvalidInputError"
  ELSE "ok"

\* __validate_content_security_batch that compares without lower-casing
validate_content_security_batch_case_sensitive(content) ==
  IF \E c \in {content} : \E i \in 1..Len(c) : c[i] = NUL THEN "InvalidInputError"
  ELSE IF \E c \in {content} :
            \/ \E p \in DANGEROUS_PATTERNS : Contains(c, p)
            \/ \E p \in script_patterns : Contains(c, p)
    THEN "InvalidInputError"
  ELSE "ok"

\* SecureEnvLoader.__validate_content_security_batch: "ok" or the error it raises
validate_content_security_batch(content) ==
  IF \E c \in {content} : \E i \in 1..Len(c) : c[i] = NUL THEN "InvalidInputError"
  ELSE IF \E content_lower \in {Lower(content)} :
            \/ \E p \in DANGEROUS_PATTERNS : Contains(content_lower, p)
            \/ \E p \in script_patterns : Contains(content_lower, p)
    THEN "InvalidInputError"
  ELSE "ok"

\* ------------------------------------------------------------------------
\* EnvMap: a function from keys to values
\* ------------------------------------------------------------------------
EmptyMap == [k \in {} |-> NoneVal]
MapPut(m, k, x) == [y \in DOMAIN m \cup {k} |-> IF y = k THEN x ELSE m[y]]

\* Remove one matching pair of wrapping quotes (secure.py: no length guard)
Unquote(value) ==
  IF \/ (StartsWith(value, <<"\"">>) /\ EndsWith(value, <<"\"">>))
     \/ (StartsWith(value, <<"'">>) /\ EndsWith(value, <<"'">>))
    THEN SubSeq(value, 2, Len(value) - 1)
    ELSE value

\* A line loop in which an over-long line fails the load instead of being
\* skipped.
RECURSIVE parse_lines_secure_long_line_fatal(_, _, _, _)
parse_lines_secure_long_line_fatal(lines, pad, i, env) ==
  IF i > Len(lines)
    THEN IF Len(lines) + pad > MaxLines
           THEN [err |-> "InvalidInputError", env |-> env]
           ELSE [err |-> "ok", env |-> env]
  ELSE IF i > MaxLines THEN [err |-> "InvalidInputError", env |-> env]
  ELSE IF Len(lines[i]) > MAX_LINE_LENGTH THEN [err |-> "InvalidInputError", env |-> env]
  ELSE
    LET line == Strip(lines[i])
        eq == FirstEq(line)
        key == Strip(SubSeq(line, 1, eq - 1))
        value == Unquote(Strip(SubSeq(line, eq + 1, Len(line))))
        chk == validate_key_value(key, value)
    IN IF line = <<>> \/ StartsWith(line, <<"#">>)
         THEN parse_lines_secure_long_line_fatal(lines, pad, i + 1, env)
       ELSE IF eq = 0 THEN parse_lines_secure_long_line_fatal(lines, pad, i + 1, env)
       ELSE IF chk # "ok" THEN [err |-> chk, env |-> env]
       ELSE parse_lines_secure_long_line_fatal(lines, pad, i + 1,
                                               MapPut(env, key, parse_value_secure(value)))

\* The line loop of __parse_file_secure, from line i on.  pad is the number of
\* blank lines that follow the listed lines (a long tail of blank lines is not
\* written out; each of them only counts towards line_count).
RECURSIVE parse_lines_secure(_, _, _, _)
parse_lines_secure(lines, pad, i, env) ==
  IF i > Len(lines)
    THEN IF Len(lines) + pad > MaxLines
           THEN [err |-> "InvalidInputError", env |-> env]
           ELSE [err |-> "ok", env |-> env]
  ELSE IF i > MaxLines THEN [err |-> "InvalidInputError", env |-> env]
  ELSE IF Len(lines[i]) > MAX_LINE_LENGTH THEN parse_lines_secure(lines, pad, i + 1, env)
  ELSE
    LET line == Strip(lines[i])
        eq == FirstEq(line)
        key == Strip(SubSeq(line, 1, eq - 1))
        value == Unquote(Strip(SubSeq(line, eq + 1, Len(line))))
        chk == validate_key_value(key, value)
    IN IF line = <<>> \/ StartsWith(line, <<"#">>) THEN parse_lines_secure(lines, pad, i + 1, env)
       ELSE IF eq = 0 THEN parse_lines_secure(lines, pad, i + 1, env)
       ELSE IF chk # "ok" THEN [err |-> chk, env |-> env]
       ELSE parse_lines_secure(lines, pad, i + 1, MapPut(env, key, parse_value_secure(value)))

\* ------------------------------------------------------------------------
\* Files.  A file is [kind, lines, pad, utf8, filler]: its text lines, the number of
\* blank lines that follow them, and whether its bytes decode as UTF-8.
\* filler > 0 stands for one further comment line of filler characters
\* (how a text grows past the size where the read is handed to a thread).
\* ------------------------------------------------------------------------
File(lines, pad, utf8) ==
  [kind |-> "file", lines |-> lines, pad |-> pad, utf8 |-> utf8,
   filler |-> 0]
Absent == [File(<<>>, 0, TRUE) EXCEPT !.kind = "absent"]
Directory == [File(<<>>, 0, TRUE) EXCEPT !.kind = "dir"]
\* Symbolic links: is_file() and is_dir() follow them, is_symlink() is true
SymlinkDir == [File(<<>>, 0, TRUE) EXCEPT !.kind = "symlink_dir"]
SymlinkFile == [File(<< <<"A","=","x">> >>, 0, TRUE) EXCEPT !.kind = "symlink_file"]

LineAx == <<"A","=","x">>
LineB7 == <<"B","=","0","7">>
LineBon == <<"B","=","o","n">>
LineCq == <<"C","=","\"","q","\"">>
LineComment == <<"#","c">>
LineNoEq == <<"n","o","e","q">>
LineDanger == <<"D","=","$","(","i","d",")">>
LineBadKey == <<"A",".","B","=","x">>

\* The contents a file of the model can have
Good1 == File(<<LineAx, LineB7>>, 0, TRUE)
Good2 == File(<<LineBon, LineCq>>, 0, TRUE)
CommentOnly == File(<<LineComment, <<>>, LineNoEq>>, 0, TRUE)
Dangerous == File(<<LineAx, LineDanger>>, 0, TRUE)
BadKey == File(<<LineAx, LineBadKey>>, 0, TRUE)
EmptyFile == File(<<>>, 0, TRUE)
NotUtf8 == File(<<LineAx>>, 0, FALSE)
TooManyLines == File(<<LineAx>>, MaxLines, TRUE)
Catalogue ==
  {Absent, Good1, Good2, CommentOnly, Dangerous, BadKey, EmptyFile, NotUtf8,
   TooManyLines, Directory}

DotEnv == <<".","e","n","v">>
CwdPath == <<".","/">>
TraversalPath == <<".",".","/","a">>
OtherPath == <<"b",".","e","n","v">>

\* Paths below the working directory
PathA == <<"a">>
PathAB == <<"a","/","b">>
PathABEnv == PathAB \o <<"/">> \o DotEnv
PathABC == PathAB \o <<"/","c">>
PathABCD == PathABC \o <<"/","d">>
PathABCDEnv == PathABCD \o <<"/">> \o DotEnv
PathC == <<"c">>
PathCEnv == PathC \o <<"/">> \o DotEnv
PathH == <<".","h">>
PathHEnv == PathH \o <<"/">> \o DotEnv

\* Paths of the modelled working directory, in the order iterdir() lists them
ScanOrder ==
  <<PathA, PathAB, PathABEnv, PathABC, PathABCD, PathABCDEnv, DotEnv, PathC, PathCEnv,
    PathH, PathHEnv>>
FsPaths == {ScanOrder[i] : i \in 1..Len(ScanOrder)}

VARIABLES
  fs,               \* path -> file of the Catalogue, Absent when there is none
  env_data,         \* store -> EnvMap                     (__env_data)
  file_hashes,      \* store -> (path -> hash)             (__file_hashes)
  access_log,       \* store -> sequence of journal entries (__access_log)
  access_count,     \* store -> session access counter     (__access_count)
  session_id,       \* store -> session identifier         (__session_id)
  os_environ,       \* the process-wide environment table  (os.environ)
  simple_env_data,  \* env_data of the module's SimpleEnvLoader
  secure_loader,    \* module global _secure_loader: "none" or a store
  global_loader_ref,\* _secure_manager._global_loader_ref: "none" or a store
  next_session,     \* the next fresh session identifier
  parsed_from,      \* store -> file the current map was parsed from (history)
  load_tasks,       \* task -> where its load_secure coroutine on store "d" stands
  last              \* the last call: [op, loader, arg, err, ret, cause, file_ops, strict,
                    \* max_depth]

vars == <<fs, env_data, file_hashes, access_log, access_count, session_id,
          os_environ, simple_env_data, secure_loader, global_loader_ref,
          next_session, parsed_from, load_tasks, last>>

FileAt(path) == IF path \in DOMAIN fs THEN fs[path] ELSE Absent

\* st_size: every line ends with a newline
RECURSIVE SumLen(_)
SumLen(lines) == IF lines = <<>> THEN 0 ELSE Len(Head(lines)) + 1 + SumLen(Tail(lines))
FileSize(f) ==
  SumLen(f.lines) + f.pad + (IF f.filler > 0 THEN f.filler + 1 ELSE 0)
\* Number of lines of the text
LineCount(f) == Len(f.lines) + f.pad + (IF f.filler > 0 THEN 1 ELSE 0)

\* file.read(): the text, lines joined by newlines
RECURSIVE Join(_)
Join(lines) == IF lines = <<>> THEN <<>> ELSE Head(lines) \o <<"\n">> \o Join(Tail(lines))

\* SHA-256 of the file's bytes: equal bytes, equal digest; no collisions
Sha256(f) == <<"sha256", f.lines, f.pad, f.utf8, f.filler>>

\* SecureEnvLoader.__calculate_file_hash: open(file_path, "rb") raises on a
\* missing path or a directory
calculate_file_hash(path) ==
  IF FileAt(path).kind \in {"file", "symlink_file"}
    THEN [err |-> "ok", hash |-> Sha256(FileAt(path))]
    ELSE [err |-> "OSError", hash |-> None]

\* ------------------------------------------------------------------------
\* The secure store.  A store value s is
\* [env_data, file_hashes, access_log, access_count, session_id].
\* ------------------------------------------------------------------------
Store(l) ==
  [env_data |-> env_data[l], file_hashes |-> file_hashes[l],
   access_log |-> access_log[l], access_count |-> access_count[l],
   session_id |-> session_id[l]]

NewStore(sid) ==
  [env_data |-> EmptyMap, file_hashes |-> EmptyMap, access_log |-> <<>>,
   access_count |-> 0, session_id |-> sid]

\* __log_access that trims the journal to its first 100 entries
log_access_keep_oldest(s, operation, key, success) ==
  LET count == s.access_count + 1
      entry == [session_id |-> s.session_id, operation |-> operation, key |-> key,
                success |-> success, access_count |-> count]
      log == Append(s.access_log, entry)
  IN [s EXCEPT !.access_count = count,
               !.access_log = IF Len(log) > MaxLogEntries
                                THEN SubSeq(log, 1, MaxLogEntries)
                                ELSE log]

\* SecureEnvLoader.__log_access
log_access(s, operation, key, success) ==
  LET count == s.access_count + 1
      entry == [session_id |-> s.session_id, operation |-> operation, key |-> key,
                success |-> success, access_count |-> count]
      log == Append(s.access_log, entry)
  IN [s EXCEPT !.access_count = count,
               !.access_log = IF Len(log) > MaxLogEntries
                                THEN SubSeq(log, Len(log) - MaxLogEntries + 1, Len(log))
                                ELSE log]

\* __validate_path_security that raises PathTraversalError for every rejection
validate_path_security_all_traversal(s, path) ==
  IF path = <<>> \/ path = None THEN [err |-> "InvalidInputError", s |-> s]
  ELSE IF \/ Contains(path, <<".",".">>) \/ StartsWith(path, <<"/">>)
          \/ \E i \in 1..Len(path) : path[i] = NUL
          \/ Len(path) > MaxPathLength
    THEN [err |-> "PathTraversalError", s |-> log_access(s, "path_validation", path, FALSE)]
  ELSE [err |-> "ok", s |-> log_access(s, "path_validation", path, TRUE)]

\* SecureEnvLoader.__validate_path_security
validate_path_security(s, path) ==
  IF path = <<>> \/ path = None THEN [err |-> "InvalidInputError", s |-> s]
  ELSE IF Contains(path, <<".",".">>) \/ StartsWith(path, <<"/">>)
    THEN [err |-> "PathTraversalError", s |-> log_access(s, "path_validation", path, FALSE)]
  ELSE IF \E i \in 1..Len(path) : path[i] = NUL THEN [err |-> "InvalidInputError", s |-> s]
  ELSE IF Len(path) > MaxPathLength THEN [err |-> "InvalidInputError", s |-> s]
  ELSE [err |-> "ok", s |-> log_access(s, "path_validation", path, TRUE)]

\* __validate_file_security that refuses a file of exactly MAX_FILE_SIZE bytes
validate_file_security_size_inclusive(s, path) ==
  LET f == FileAt(path)
  IN IF f.kind = "absent"
       THEN [err |-> "FileNotFoundError", s |-> s, ops |-> <<"exists">>]
     ELSE IF f.kind \notin {"file", "symlink_file"}
       THEN [err |-> "InvalidInputError", s |-> s, ops |-> <<"exists", "is_file">>]
     ELSE IF f.kind = "symlink_file"
       THEN [err |-> "InvalidInputError", s |-> s,
             ops |-> <<"exists", "is_file", "is_symlink">>]
     ELSE IF FileSize(f) = 0
       THEN [err |-> "InvalidInputError", s |-> s,
             ops |-> <<"exists", "is_file", "is_symlink", "stat">>]
     ELSE IF FileSize(f) >= MAX_FILE_SIZE
       THEN [err |-> "FileSizeError", s |-> s,
             ops |-> <<"exists", "is_file", "is_symlink", "stat">>]
     ELSE [err |-> "ok",
           s |-> [s EXCEPT !.file_hashes = MapPut(s.file_hashes, path, Sha256(f))],
           ops |-> <<"exists", "is_file", "is_symlink", "stat", "open">>]

\* SecureEnvLoader.__validate_file_security: [err, s, ops]; ops lists the
\* file-system operations it performs on the path, in order
validate_file_security(s, path) ==
  LET f == FileAt(path)
  IN IF f.kind = "absent"
       THEN [err |-> "FileNotFoundError", s |-> s, ops |-> <<"exists">>]
     ELSE IF f.kind \notin {"file", "symlink_file"}
       THEN [err |-> "InvalidInputError", s |-> s, ops |-> <<"exists", "is_file">>]
     ELSE IF f.kind = "symlink_file"
       THEN [err |-> "InvalidInputError", s |-> s,
             ops |-> <<"exists", "is_file", "is_symlink">>]
     ELSE IF FileSize(f) = 0
       THEN [err |-> "InvalidInputError", s |-> s,
             ops |-> <<"exists", "is_file", "is_symlink", "stat">>]
     ELSE IF FileSize(f) > MAX_FILE_SIZE
       THEN [err |-> "FileSizeError", s |-> s,
             ops |-> <<"exists", "is_file", "is_symlink", "stat">>]
     ELSE [err |-> "ok",
           s |-> [s EXCEPT !.file_hashes = MapPut(s.file_hashes, path, Sha256(f))],
           ops |-> <<"exists", "is_file", "is_symlink", "stat", "open">>]

\* The try block of __parse_file_secure: read, batch check, line loop
parse_content_secure(f) ==
  IF ~f.utf8 THEN [err |-> "UnicodeDecodeError", env |-> EmptyMap]
  ELSE IF validate_content_security_batch(Join(f.lines)) # "ok"
    THEN [err |-> "InvalidInputError", env |-> EmptyMap]
  ELSE parse_lines_secure(f.lines, LineCount(f) - Len(f.lines), 1, EmptyMap)

\* The file-system operations of the try block of __parse_file_secure
ReadOps == <<"stat", "open">>

\* __parse_file_secure that looks at the file before it validates the path
parse_file_secure_file_first(s, path) ==
  LET r2 == validate_file_security(s, path)
      r1 == validate_path_security(r2.s, path)
  IN IF r2.err # "ok"
       THEN [err |-> r2.err, cause |-> r2.err, s |-> r2.s, env |-> EmptyMap, file_ops |-> r2.ops]
       ELSE [err |-> r1.err, cause |-> r1.err, s |-> r1.s, env |-> EmptyMap, file_ops |-> r2.ops]

\* SecureEnvLoader.__parse_file_secure: [err, cause, s, env, file_ops]
parse_file_secure(s, path) ==
  LET r1 == validate_path_security(s, path)
      r2 == validate_file_security(r1.s, path)
      r3 == parse_content_secure(FileAt(path))
  IN IF r1.err # "ok"
       THEN [err |-> r1.err, cause |-> r1.err, s |-> r1.s, env |-> EmptyMap, file_ops |-> <<>>]
     ELSE IF r2.err # "ok"
       THEN [err |-> r2.err, cause |-> r2.err, s |-> r2.s, env |-> EmptyMap, file_ops |-> r2.ops]
     ELSE IF r3.err = "UnicodeDecodeError"
       THEN [err |-> "InvalidInputError", cause |-> r3.err, s |-> r2.s, env |-> EmptyMap,
             file_ops |-> r2.ops \o ReadOps]
     ELSE IF r3.err # "ok"
       THEN [err |-> "FileParsingError", cause |-> r3.err,
             s |-> log_access(r2.s, "file_parse", path, FALSE), env |-> EmptyMap,
             file_ops |-> r2.ops \o ReadOps]
     ELSE [err |-> "ok", cause |-> "ok",
           s |-> log_access(r2.s, "file_parse", path, TRUE), env |-> r3.env,
           file_ops |-> r2.ops \o ReadOps]

\* ------------------------------------------------------------------------
\* Directory scan
\* ------------------------------------------------------------------------
IsRoot(dir) == dir \in {<<".">>, <<".","/">>}

\* entry is a direct child of dir
IsChild(p, dir) ==
  IF IsRoot(dir)
    THEN ~Contains(p, <<"/">>)
    ELSE /\ StartsWith(p, dir \o <<"/">>)
         /\ ~Contains(SubSeq(p, Len(dir) + 2, Len(p)), <<"/">>)

\* entry.name
EntryName(p, dir) == IF IsRoot(dir) THEN p ELSE SubSeq(p, Len(dir) + 2, Len(p))

\* list(path_obj.iterdir()), as the paths str(entry) yields
DirEntries(dir) ==
  SelectSeq(ScanOrder, LAMBDA p : FileAt(p).kind # "absent" /\ IsChild(p, dir))

\* SecureEnvLoader.__scan_directory_secure: [err, s, ret]; ret = None for no match.
\* scan_subdirs is its second loop, from entry i on.
RECURSIVE scan_directory_secure(_, _, _)
RECURSIVE scan_subdirs(_, _, _, _, _)
scan_subdirs(s, dir, entries, i, max_depth) ==
  IF i > Len(entries) THEN [err |-> "ok", s |-> s, ret |-> None]
  ELSE IF /\ FileAt(entries[i]).kind = "dir"
          /\ ~StartsWith(EntryName(entries[i], dir), <<".">>)
    THEN LET r == scan_directory_secure(s, entries[i], max_depth - 1)
         IN IF r.err # "ok" \/ r.ret # None
              THEN r
              ELSE scan_subdirs(r.s, dir, entries, i + 1, max_depth)
    ELSE scan_subdirs(s, dir, entries, i + 1, max_depth)

\* __scan_directory_secure that descends whatever depth is left
scan_directory_secure_any_depth(s, path, max_depth) ==
  LET r1 == validate_path_security(s, path)
      entries == DirEntries(path)
      found == {i \in 1..Len(entries) :
                  /\ EntryName(entries[i], path) = DotEnv
                  /\ FileAt(entries[i]).kind = "file"}
  IN IF r1.err # "ok" THEN [err |-> r1.err, s |-> r1.s, ret |-> None]
     ELSE IF ~IsRoot(path) /\ FileAt(path).kind \notin {"dir", "symlink_dir"}
       THEN [err |-> "ok", s |-> r1.s, ret |-> None]
     ELSE IF Len(entries) > MAX_ENTRIES
       THEN [err |-> "InvalidInputError", s |-> r1.s, ret |-> None]
     ELSE IF found # {}
       THEN [err |-> "ok", s |-> r1.s,
             ret |-> entries[CHOOSE i \in found : \A j \in found : i <= j]]
     ELSE scan_subdirs(r1.s, path, entries, 1, max_depth)

scan_directory_secure(s, path, max_depth) ==
  LET r1 == validate_path_security(s, path)
      entries == DirEntries(path)
      found == {i \in 1..Len(entries) :
                  /\ EntryName(entries[i], path) = DotEnv
                  /\ FileAt(entries[i]).kind = "file"}
  IN IF r1.err # "ok" THEN [err |-> r1.err, s |-> r1.s, ret |-> None]
     ELSE IF ~IsRoot(path) /\ FileAt(path).kind \notin {"dir", "symlink_dir"}
       THEN [err |-> "ok", s |-> r1.s, ret |-> None]
     ELSE IF Len(entries) > MAX_ENTRIES
       THEN [err |-> "InvalidInputError", s |-> r1.s, ret |-> None]
     ELSE IF found # {}
       THEN [err |-> "ok", s |-> r1.s,
             ret |-> entries[CHOOSE i \in found : \A j \in found : i <= j]]
     ELSE IF max_depth > 0 THEN scan_subdirs(r1.s, path, entries, 1, max_depth)
     ELSE [err |-> "ok", s |-> r1.s, ret |-> None]

Min(a, b) == IF a <= b THEN a ELSE b

\* LoadOptions
LoadOptions(path, max_depth) ==
  [path |-> path, max_depth |-> max_depth, strict_validation |-> TRUE]

\* The try block of load_secure up to the assignment: locate and parse the file
locate_and_parse(s, options) ==
  IF options.path # None /\ options.path # <<>>
    THEN parse_file_secure(s, options.path)
    ELSE LET sc == scan_directory_secure(s, CwdPath, Min(options.max_depth, MAX_SCAN_DEPTH))
         IN IF sc.err # "ok"
              THEN [err |-> sc.err, cause |-> sc.err, s |-> sc.s, env |-> EmptyMap,
                    file_ops |-> <<>>]
            ELSE IF sc.ret = None
              THEN [err |-> "FileNotFoundError", cause |-> "FileNotFoundError",
                    s |-> sc.s, env |-> EmptyMap, file_ops |-> <<>>]
            ELSE parse_file_secure(sc.s, sc.ret)

\* load_secure that parses into the store's own map: a failed load clears it
load_secure_in_place(s, options) ==
  LET r == locate_and_parse(s, options)
  IN IF r.err = "ok"
       THEN [err |-> "ok", cause |-> "ok", file_ops |-> r.file_ops,
             s |-> log_access([r.s EXCEPT !.env_data = r.env], "load_complete", None, TRUE)]
       ELSE [err |-> r.err, cause |-> r.cause, file_ops |-> r.file_ops,
             s |-> log_access([r.s EXCEPT !.env_data = r.env], "load_failed", None, FALSE)]

\* SecureEnvLoader.load_secure: [err, cause, s, file_ops].  cause is the error
\* first raised, file_ops the file-system operations on the file it parsed.
load_secure(s, options) ==
  LET r == locate_and_parse(s, options)
  IN IF r.err = "ok"
       THEN [err |-> "ok", cause |-> "ok", file_ops |-> r.file_ops,
             s |-> log_access([r.s EXCEPT !.env_data = r.env], "load_complete", None, TRUE)]
       ELSE [err |-> r.err, cause |-> r.cause, file_ops |-> r.file_ops,
             s |-> log_access(r.s, "load_failed", None, FALSE)]

\* The path load_secure parses, None when it parses none
load_target(s, options) ==
  IF options.path # None /\ options.path # <<>>
    THEN options.path
    ELSE scan_directory_secure(s, CwdPath, Min(options.max_depth, MAX_SCAN_DEPTH)).ret

\* ------------------------------------------------------------------------
\* Accessors: [s, ret]
\* ------------------------------------------------------------------------
MapGet(m, k) == IF k \in DOMAIN m THEN m[k] ELSE NoneVal

\* SecureEnvLoader.get_secure
get_secure(s, key) ==
  [s |-> log_access(s, "get", key, key \in DOMAIN s.env_data),
   ret |-> MapGet(s.env_data, key)]

\* get_with_default_secure that journals hits only
get_with_default_secure_hits_only(s, key, default) ==
  [s |-> IF key \in DOMAIN s.env_data THEN log_access(s, "get_default", key, TRUE) ELSE s,
   ret |-> IF key \in DOMAIN s.env_data THEN s.env_data[key] ELSE default]

\* SecureEnvLoader.get_with_default_secure
get_with_default_secure(s, key, default) ==
  [s |-> log_access(s, "get_default", key, TRUE),
   ret |-> IF key \in DOMAIN s.env_data THEN s.env_data[key] ELSE default]

\* int(value) on a stored String: optional sign, digits, single underscores
\* between digits; anything else raises ValueError
IntLiteral(v) ==
  LET t == Strip(v)
      body == IF t # <<>> /\ Head(t) \in {"+", "-"} THEN Tail(t) ELSE t
      digits == RemoveChar(body, "_")
  IN [ok |-> /\ IsDigit(digits)
             /\ body[1] # "_" /\ body[Len(body)] # "_"
             /\ ~Contains(body, <<"_","_">>),
      text |-> IF t # <<>> /\ Head(t) = "-" THEN <<"-">> \o digits ELSE digits]

\* SecureEnvLoader.get_int_secure (a stored Boolean is an int instance)
get_int_secure(s, key, default) ==
  LET r == get_secure(s, key)
      lit == IntLiteral(r.ret.v)
  IN [s |-> r.s,
      ret |-> IF r.ret.t = "none" THEN default
              ELSE IF r.ret.t \in {"int", "bool"} THEN r.ret
              ELSE IF r.ret.t = "str" /\ lit.ok THEN IntVal(lit.text)
              ELSE default]

\* SecureEnvLoader.get_bool_secure
get_bool_secure(s, key, default) ==
  LET r == get_secure(s, key)
  IN [s |-> r.s,
      ret |-> IF r.ret.t = "none" THEN default
              ELSE IF r.ret.t = "bool" THEN r.ret
              ELSE IF r.ret.t = "str"
                THEN BoolVal(Lower(r.ret.v) \in
                       {<<"t","r","u","e">>, <<"y","e","s">>, <<"1">>, <<"o","n">>})
              ELSE default]

\* SecureEnvLoader.get_str_secure
get_str_secure(s, key, default) ==
  LET r == get_secure(s, key)
  IN [s |-> r.s,
      ret |-> IF r.ret.t = "none" THEN default ELSE StrVal(r.ret.v)]

\* SecureEnvLoader.get_all_keys_secure (the order of the list is not modelled)
get_all_keys_secure(s) ==
  [s |-> log_access(s, "get_keys", None, TRUE),
   ret |-> [t |-> "keys", v |-> DOMAIN s.env_data]]

\* SecureEnvLoader.get_all_secure
get_all_secure(s) ==
  [s |-> log_access(s, "get_all", None, TRUE),
   ret |-> [t |-> "map", v |-> s.env_data]]

\* SecureEnvLoader.is_loaded
is_loaded(s) == DOMAIN s.env_data # {}

\* SecureEnvLoader.get_security_info
get_security_info(s) ==
  [session_id |-> s.session_id, access_count |-> s.access_count,
   env_count |-> Cardinality(DOMAIN s.env_data),
   file_hashes |-> Cardinality(DOMAIN s.file_hashes),
   log_entries |-> Len(s.access_log)]

\* SecureEnvLoader.get_access_log
get_access_log(s) == s.access_log

\* SecureEnvLoader.verify_file_integrity: [err, ret, mismatch]; err is what the
\* caller sees, mismatch tells that IntegrityError was raised inside the try
verify_file_integrity(s, path) ==
  LET h == calculate_file_hash(path)
  IN IF path \notin DOMAIN s.file_hashes
       THEN [err |-> "ok", ret |-> FALSE, mismatch |-> FALSE]
     ELSE IF h.err # "ok" THEN [err |-> "ok", ret |-> FALSE, mismatch |-> FALSE]
     ELSE IF h.hash # s.file_hashes[path]
       THEN [err |-> "ok", ret |-> FALSE, mismatch |-> TRUE]
     ELSE [err |-> "ok", ret |-> TRUE, mismatch |-> FALSE]

\* secure_wipe that also starts a new session
secure_wipe_new_session(s) ==
  [s EXCEPT !.env_data = EmptyMap, !.file_hashes = EmptyMap, !.access_log = <<>>,
            !.access_count = 0, !.session_id = s.session_id + 100]

\* secure_wipe that leaves the hash cache in place
secure_wipe_keep_hashes(s) ==
  [s EXCEPT !.env_data = EmptyMap, !.access_log = <<>>]

\* SecureEnvLoader.secure_wipe: the values are overwritten with "WIPED" and the
\* map cleared (three passes), then the hash cache and the journal are cleared
secure_wipe(s) ==
  [s EXCEPT !.env_data = EmptyMap, !.file_hashes = EmptyMap, !.access_log = <<>>]

\* ------------------------------------------------------------------------
\* The simple path (utils.py, loaders/simple.py)
\* ------------------------------------------------------------------------
\* utils.validate_value_security
validate_value_security(value) ==
  IF \E p \in DANGEROUS_PATTERNS : Contains(Lower(value), p) THEN "InvalidInputError"
  ELSE IF \E p \in script_patterns : Contains(Lower(value), p) THEN "InvalidInputError"
  ELSE "ok"

\* constants.PATH_TRAVERSAL_PATTERNS
PATH_TRAVERSAL_PATTERNS == {
  <<".",".">>,
  <<"/",".","/">>,
  <<"\\",".",".","\\">>,
  <<"%","2","e","%","2","e">>,
  <<"%","2","5","2","e","%","2","5","2","e">>,
  <<".",".","%","2","f">>,
  <<".",".","%","5","c">>,
  <<".",".","%","2","5","5","c">>,
  <<".",".","%","c","0","%","a","f">> }

\* utils.validate_path_security: "ok" or the error it raises
utils_validate_path_security(path) ==
  IF path = <<>> \/ path = None THEN "InvalidInputError"
  ELSE IF \E p \in PATH_TRAVERSAL_PATTERNS : Contains(path, p) THEN "PathTraversalError"
  ELSE IF \E i \in 1..Len(path) : path[i] = NUL THEN "InvalidInputError"
  ELSE IF Len(path) > MaxPathLength THEN "InvalidInputError"
  ELSE "ok"

\* utils.validate_key_format
validate_key_format(key, strict) ==
  IF key = <<>> THEN "InvalidInputError"
  ELSE IF strict
    THEN IF /\ key[1] \in Upper \cup LowerLetters
            /\ \A i \in 2..Len(key) :
                 key[i] \in Upper \cup LowerLetters \cup Digits \cup {"_", "-"}
           THEN "ok" ELSE "InvalidInputError"
  ELSE IF \E i \in 1..Len(key) : key[i] \in {"=", "\n", "\r", NUL}
    THEN "InvalidInputError"
  ELSE "ok"

\* float(value) for a plain decimal [sign]digits.digits, as str() prints it;
\* exponent and underscore forms are outside the modelled inputs
RECURSIVE StripTrailingZeros(_)
StripTrailingZeros(d) ==
  IF Len(d) > 1 /\ d[Len(d)] = "0" THEN StripTrailingZeros(SubSeq(d, 1, Len(d) - 1)) ELSE d

FloatLiteral(value) ==
  LET neg == value # <<>> /\ Head(value) = "-"
      body == IF value # <<>> /\ Head(value) \in {"+", "-"} THEN Tail(value) ELSE value
      dot == IF \E i \in 1..Len(body) : body[i] = "."
               THEN CHOOSE i \in 1..Len(body) : body[i] = "." /\ \A j \in 1..(i - 1) : body[j] # "."
               ELSE 0
      ip == SubSeq(body, 1, dot - 1)
      fp == SubSeq(body, dot + 1, Len(body))
  IN [ok |-> /\ dot > 0
             /\ (ip = <<>> \/ IsDigit(ip)) /\ (fp = <<>> \/ IsDigit(fp))
             /\ (ip # <<>> \/ fp # <<>>),
      text |-> (IF neg THEN <<"-">> ELSE <<>>)
               \o StripZeros(IF ip = <<>> THEN <<"0">> ELSE ip) \o <<".">>
               \o StripTrailingZeros(IF fp = <<>> THEN <<"0">> ELSE fp)]

\* utils.parse_env_value: [err, val]
parse_env_value(raw, strict) ==
  LET value == Strip(raw)
      fl == FloatLiteral(value)
  IN IF value = <<>> THEN [err |-> "ok", val |-> StrVal(<<>>)]
     ELSE IF strict /\ validate_value_security(value) # "ok"
       THEN [err |-> "InvalidInputError", val |-> NoneVal]
     ELSE IF Lower(value) \in TRUE_VALUES THEN [err |-> "ok", val |-> BoolVal(TRUE)]
     ELSE IF Lower(value) \in FALSE_VALUES THEN [err |-> "ok", val |-> BoolVal(FALSE)]
     ELSE IF LooksInteger(value)
       THEN IF InRange64(value) THEN [err |-> "ok", val |-> IntVal(value)]
            ELSE IF strict THEN [err |-> "TypeConversionError", val |-> NoneVal]
            ELSE [err |-> "ok", val |-> StrVal(value)]
     ELSE IF Contains(value, <<".">>) /\ fl.ok
       THEN [err |-> "ok", val |-> [t |-> "float", v |-> fl.text]]
     ELSE IF Contains(value, <<".">>) /\ strict
       THEN [err |-> "TypeConversionError", val |-> NoneVal]
     ELSE [err |-> "ok", val |-> StrVal(value)]

\* parse_env_line for which a line without "=" is an error in either mode
parse_env_line_missing_eq_fatal(raw, strict) ==
  LET line == Strip(raw)
      eq == FirstEq(line)
      key == Strip(SubSeq(line, 1, eq - 1))
      v0 == Strip(SubSeq(line, eq + 1, Len(line)))
      value == IF Len(v0) >= 2 THEN Unquote(v0) ELSE v0
      pv == parse_env_value(value, strict)
      Skip == [err |-> "ok", skip |-> TRUE, key |-> <<>>, val |-> NoneVal]
      Fail(e) == [err |-> e, skip |-> TRUE, key |-> <<>>, val |-> NoneVal]
  IN IF line = <<>> \/ StartsWith(line, <<"#">>) THEN Skip
     ELSE IF eq = 0 THEN Fail("FileParsingError")
     ELSE IF key = <<>> THEN IF strict THEN Fail("FileParsingError") ELSE Skip
     ELSE IF strict /\ validate_key_format(key, TRUE) # "ok" THEN Fail("InvalidInputError")
     ELSE IF pv.err # "ok"
       THEN IF strict THEN Fail("FileParsingError")
            ELSE [err |-> "ok", skip |-> FALSE, key |-> key, val |-> StrVal(value)]
     ELSE [err |-> "ok", skip |-> FALSE, key |-> key, val |-> pv.val]

\* utils.parse_env_line: [err, skip, key, val]
parse_env_line(raw, strict) ==
  LET line == Strip(raw)
      eq == FirstEq(line)
      key == Strip(SubSeq(line, 1, eq - 1))
      v0 == Strip(SubSeq(line, eq + 1, Len(line)))
      value == IF Len(v0) >= 2 THEN Unquote(v0) ELSE v0
      pv == parse_env_value(value, strict)
      Skip == [err |-> "ok", skip |-> TRUE, key |-> <<>>, val |-> NoneVal]
      Fail(e) == [err |-> e, skip |-> TRUE, key |-> <<>>, val |-> NoneVal]
  IN IF line = <<>> \/ StartsWith(line, <<"#">>) THEN Skip
     ELSE IF eq = 0 THEN IF strict THEN Fail("FileParsingError") ELSE Skip
     ELSE IF key = <<>> THEN IF strict THEN Fail("FileParsingError") ELSE Skip
     ELSE IF strict /\ validate_key_format(key, TRUE) # "ok" THEN Fail("InvalidInputError")
     ELSE IF pv.err # "ok"
       THEN IF strict THEN Fail("FileParsingError")
            ELSE [err |-> "ok", skip |-> FALSE, key |-> key, val |-> StrVal(value)]
     ELSE [err |-> "ok", skip |-> FALSE, key |-> key, val |-> pv.val]

\* utils.parse_env_content over content.splitlines(), from line i on: [err, env]
RECURSIVE parse_env_lines(_, _, _, _)
parse_env_lines(lines, strict, i, env) ==
  IF i > Len(lines) THEN [err |-> "ok", env |-> env]
  ELSE LET r == parse_env_line(lines[i], strict)
       IN IF r.err # "ok"
            THEN IF r.err = "FileParsingError" \/ strict
                   THEN [err |-> "FileParsingError", env |-> env]
                   ELSE parse_env_lines(lines, strict, i + 1, env)
          ELSE IF r.skip THEN parse_env_lines(lines, strict, i + 1, env)
          ELSE parse_env_lines(lines, strict, i + 1, MapPut(env, r.key, r.val))

parse_env_content(lines, strict) == parse_env_lines(lines, strict, 1, EmptyMap)

\* str.splitlines() of a text whose only line break is "\n"
RECURSIVE SplitLines(_)
SplitLines(text) ==
  IF text = <<>> THEN <<>>
  ELSE IF \E i \in 1..Len(text) : text[i] = "\n"
    THEN LET k == CHOOSE i \in 1..Len(text) :
                    text[i] = "\n" /\ \A j \in 1..(i - 1) : text[j] # "\n"
         IN <<SubSeq(text, 1, k - 1)>> \o SplitLines(SubSeq(text, k + 1, Len(text)))
  ELSE <<text>>

\* "\n".join(lines)
RECURSIVE JoinLines(_)
JoinLines(lines) ==
  IF lines = <<>> THEN <<>>
  ELSE IF Len(lines) = 1 THEN lines[1]
  ELSE lines[1] \o <<"\n">> \o JoinLines(Tail(lines))

\* Code-point order of the characters keys are made of
CodeOrder == <<"-">> \o DigitSeq \o UpperSeq \o <<"_">> \o LowerSeq
CodePoint(c) == CHOOSE i \in 1..Len(CodeOrder) : CodeOrder[i] = c
\* a < b for two strings, as Python compares them
StrLess(a, b) ==
  \/ Len(a) < Len(b) /\ SubSeq(b, 1, Len(a)) = a
  \/ \E i \in 1..Min(Len(a), Len(b)) :
       /\ CodePoint(a[i]) < CodePoint(b[i])
       /\ \A j \in 1..(i - 1) : a[j] = b[j]
\* sorted(keys)
RECURSIVE SortedKeys(_)
SortedKeys(keys) ==
  IF keys = {} THEN <<>>
  ELSE LET k == CHOOSE x \in keys : \A y \in keys \ {x} : StrLess(x, y)
       IN <<k>> \o SortedKeys(keys \ {k})

\* value.replace('"', '\\"')
RECURSIVE EscapeQuotes(_)
EscapeQuotes(value) ==
  IF value = <<>> THEN <<>>
  ELSE IF Head(value) = "\"" THEN <<"\\", "\"">> \o EscapeQuotes(Tail(value))
  ELSE <<Head(value)>> \o EscapeQuotes(Tail(value))

\* One line of utils.export_to_env_format; val.v is str(value)
export_line(key, val) ==
  IF val.t = "str" /\ \E i \in 1..Len(val.v) : val.v[i] \in {" ", "\"", "'"}
    THEN key \o <<"=", "\"">> \o EscapeQuotes(val.v) \o <<"\"">>
    ELSE key \o <<"=">> \o val.v

\* utils.export_to_env_format: the text
export_to_env_format(env) ==
  LET keys == SortedKeys(DOMAIN env)
  IN JoinLines([i \in 1..Len(keys) |-> export_line(keys[i], env[keys[i]])])

\* utils.find_env_files("./", max_depth)[0] in a working directory without
\* subdirectories: the first ENV_FILE_PATTERNS name that is a regular file
find_env_file(max_depth) ==
  IF max_depth > 0 /\ FileAt(DotEnv).kind = "file" THEN DotEnv ELSE None

\* SimpleEnvLoader.load up to the sync: [err, env].  Every byte sequence decodes
\* under the latin-1 fallback of _read_with_gil_optimization.
simple_load(path, max_depth) ==
  LET target == IF path # None /\ path # <<>> THEN path ELSE find_env_file(max_depth)
      f == FileAt(target)
      r == parse_env_content(f.lines, FALSE)
  IN IF max_depth < 0 \/ max_depth > MAX_SCAN_DEPTH
       THEN [err |-> "InvalidInputError", env |-> EmptyMap]
     ELSE IF target = None \/ f.kind = "absent"
       THEN [err |-> "FileNotFoundError", env |-> EmptyMap]
     ELSE IF f.kind # "file" THEN [err |-> "FileParsingError", env |-> EmptyMap]
     ELSE r

\* {k: str(v) for k, v in env_data.items()}
StrMap(env) == [k \in DOMAIN env |-> env[k].v]

\* os.environ.update(m): putenv rejects an embedded null byte
Putable(m) ==
  {k \in DOMAIN m : /\ \A i \in 1..Len(k) : k[i] # NUL
                    /\ \A i \in 1..Len(m[k]) : m[k][i] # NUL}
MapUpdate(base, m, keys) ==
  [k \in DOMAIN base \cup keys |-> IF k \in keys THEN m[k] ELSE base[k]]

\* ------------------------------------------------------------------------
\* The module-level API (simpleenvs/__init__.py, manager.py)
\* ------------------------------------------------------------------------
Loaders == {"d", "g"}

\* SecureEnvLoader instances alive in memory: the caller's own store and the
\* module's one while a module global refers to it
InMemory == {"d"} \cup ({secure_loader, global_loader_ref} \ {"none"})

\* SecureLoaderManager.get_active_loader: the stores it may return ("none" for
\* None); the order of gc.get_objects() decides among the stores holding data
ActiveLoaders ==
  IF global_loader_ref # "none" /\ is_loaded(Store(global_loader_ref))
    THEN {global_loader_ref}
  ELSE IF \E l \in InMemory : is_loaded(Store(l))
    THEN {l \in InMemory : is_loaded(Store(l))}
  ELSE {"none"}

\* ------------------------------------------------------------------------
\* Initial state: the caller's store "d" is constructed, the module globals
\* are unset, the working directory holds no file
\* ------------------------------------------------------------------------
KeyA == <<"A">>
KeyB == <<"B">>
KeyZ == <<"Z">>
OsInit == MapPut(EmptyMap, KeyA, <<"p","r","e","s","e","t">>)
NoParse == [path |-> None, file |-> Absent]
Call(op, loader, arg, err, ret) ==
  [op |-> op, loader |-> loader, arg |-> arg, err |-> err, ret |-> ret,
   cause |-> err, file_ops |-> <<>>, strict |-> TRUE, max_depth |-> MAX_SCAN_DEPTH]
\* The record of a load_secure call with result r
LoadCall(op, loader, options, r) ==
  [op |-> op, loader |-> loader, arg |-> options.path, err |-> r.err, ret |-> NoneVal,
   cause |-> r.cause, file_ops |-> r.file_ops, strict |-> options.strict_validation,
   max_depth |-> options.max_depth]

\* The load_secure coroutines that may be in flight at once, and one that is
\* not running
Tasks == {"t1", "t2"}
IdleTask == [pc |-> "idle", path |-> None, file |-> Absent]

Init ==
  /\ fs = [p \in FsPaths |-> Absent]
  /\ env_data = [l \in Loaders |-> EmptyMap]
  /\ file_hashes = [l \in Loaders |-> EmptyMap]
  /\ access_log = [l \in Loaders |-> <<>>]
  /\ access_count = [l \in Loaders |-> 0]
  /\ session_id = [l \in Loaders |-> IF l = "d" THEN 1 ELSE 0]
  /\ next_session = 2
  /\ os_environ = OsInit
  /\ simple_env_data = EmptyMap
  /\ secure_loader = "none"
  /\ global_loader_ref = "none"
  /\ parsed_from = [l \in Loaders |-> NoParse]
  /\ load_tasks = [t \in Tasks |-> IdleTask]
  /\ last = Call("init", "none", None, "ok", NoneVal)

\* load_secure with a sync of the parsed pairs into os.environ
environ_after_load_secure_synced(environ, env) ==
  MapUpdate(environ, StrMap(env), DOMAIN env)

\* os.environ after SecureEnvLoader.load_secure stored env: the assignment of
\* the map is the whole effect ("NO sync to os.environ!")
environ_after_load_secure(environ, env) == environ

\* Assign the fields of store l from the store value s
PutStore(l, s) ==
  /\ env_data' = [env_data EXCEPT ![l] = s.env_data]
  /\ file_hashes' = [file_hashes EXCEPT ![l] = s.file_hashes]
  /\ access_log' = [access_log EXCEPT ![l] = s.access_log]
  /\ access_count' = [access_count EXCEPT ![l] = s.access_count]
  /\ session_id' = [session_id EXCEPT ![l] = s.session_id]

StoreVars == <<env_data, file_hashes, access_log, access_count, session_id>>
ModuleVars == <<os_environ, simple_env_data, secure_loader, global_loader_ref, next_session>>

\* ------------------------------------------------------------------------
\* Actions
\* ------------------------------------------------------------------------
\* Another process creates, rewrites or removes a file
WriteFile(p, c) ==
  /\ c # fs[p]
  /\ fs' = [fs EXCEPT ![p] = c]
  /\ last' = Call("write", "none", p, "ok", NoneVal)
  /\ UNCHANGED <<load_tasks, StoreVars, ModuleVars, parsed_from>>

\* await loader.load_secure(options) on store l
LoadSecure(l, options) ==
  \E r \in {load_secure(Store(l), options)} :
  \E target \in {load_target(Store(l), options)} :
     /\ PutStore(l, r.s)
     /\ parsed_from' = IF r.err = "ok"
                         THEN [parsed_from EXCEPT ![l] = [path |-> target, file |-> FileAt(target)]]
                         ELSE parsed_from
     /\ last' = LoadCall("load_secure", l, options, r)
     /\ os_environ' = IF r.err = "ok"
                        THEN environ_after_load_secure(os_environ, r.s.env_data)
                        ELSE os_environ
     /\ UNCHANGED <<load_tasks, fs, simple_env_data, secure_loader, global_loader_ref, next_session>>

\* An accessor call with result r = [s, ret]
Accessor(op, l, key, r) ==
  \E res \in {r} :
    /\ PutStore(l, res.s)
    /\ last' = Call(op, l, key, "ok", res.ret)
    /\ UNCHANGED <<load_tasks, fs, ModuleVars, parsed_from>>

GetSecure(l, key) == Accessor("get_secure", l, key, get_secure(Store(l), key))
GetWithDefaultSecure(l, key, default) ==
  Accessor("get_with_default_secure", l, key, get_with_default_secure(Store(l), key, default))
GetIntSecure(l, key, default) ==
  Accessor("get_int_secure", l, key, get_int_secure(Store(l), key, default))
GetBoolSecure(l, key, default) ==
  Accessor("get_bool_secure", l, key, get_bool_secure(Store(l), key, default))
GetStrSecure(l, key, default) ==
  Accessor("get_str_secure", l, key, get_str_secure(Store(l), key, default))
GetAllKeysSecure(l) == Accessor("get_all_keys_secure", l, None, get_all_keys_secure(Store(l)))
GetAllSecure(l) == Accessor("get_all_secure", l, None, get_all_secure(Store(l)))

\* loader.is_loaded()
IsLoaded(l) ==
  /\ last' = Call("is_loaded", l, None, "ok", BoolVal(is_loaded(Store(l))))
  /\ UNCHANGED <<load_tasks, fs, StoreVars, ModuleVars, parsed_from>>

\* loader.verify_file_integrity(path)
VerifyFileIntegrity(l, path) ==
  \E r \in {verify_file_integrity(Store(l), path)} :
     /\ last' = Call("verify_file_integrity", l, path, r.err, BoolVal(r.ret))
     /\ UNCHANGED <<load_tasks, fs, StoreVars, ModuleVars, parsed_from>>

\* loader.secure_wipe(); the call record keeps the keys whose values it overwrote
SecureWipe(l) ==
  \E s \in {secure_wipe(Store(l))} :
    /\ PutStore(l, s)
    /\ parsed_from' = [parsed_from EXCEPT ![l] = NoParse]
    /\ last' = Call("secure_wipe", l, None, "ok", [t |-> "keys", v |-> DOMAIN env_data[l]])
    /\ UNCHANGED <<load_tasks, fs, ModuleVars>>

\* simpleenvs.load(path, max_depth) / load_sync: SimpleEnvLoader.load.  When
\* putenv rejects an entry, the entries synced before it stay in the table.
SimpleLoad(path, max_depth) ==
  \E r \in {simple_load(path, max_depth)} :
  \E m \in {StrMap(r.env)} :
     /\ IF r.err # "ok"
          THEN /\ UNCHANGED <<simple_env_data, os_environ>>
               /\ last' = Call("load", "none", path, r.err, NoneVal)
          ELSE /\ simple_env_data' = r.env
               /\ IF Putable(m) = DOMAIN m
                    THEN /\ os_environ' = MapUpdate(os_environ, m, DOMAIN m)
                         /\ last' = Call("load", "none", path, "ok", NoneVal)
                    ELSE /\ \E done \in SUBSET Putable(m) :
                              os_environ' = MapUpdate(os_environ, m, done)
                         /\ last' = Call("load", "none", path, "SimpleEnvsError", NoneVal)
     /\ UNCHANGED <<load_tasks, fs, StoreVars, secure_loader, global_loader_ref, next_session, parsed_from>>

\* simpleenvs.load_secure(path, max_depth=max_depth)
GlobalLoadSecure(options) ==
  \E s0 \in {IF secure_loader = "none" THEN NewStore(next_session) ELSE Store("g")} :
  \E r \in {load_secure(s0, options)} :
  \E target \in {load_target(s0, options)} :
     /\ secure_loader' = "g"
     /\ next_session' = IF secure_loader = "none" THEN next_session + 1 ELSE next_session
     /\ PutStore("g", r.s)
     /\ global_loader_ref' = IF r.err = "ok" THEN "g" ELSE global_loader_ref
     /\ parsed_from' = IF r.err = "ok"
                         THEN [parsed_from EXCEPT !["g"] = [path |-> target, file |-> FileAt(target)]]
                         ELSE IF secure_loader = "none"
                           THEN [parsed_from EXCEPT !["g"] = NoParse]
                           ELSE parsed_from
     /\ last' = LoadCall("simpleenvs.load_secure", "g", options, r)
     /\ os_environ' = IF r.err = "ok"
                        THEN environ_after_load_secure(os_environ, r.s.env_data)
                        ELSE os_environ
     /\ UNCHANGED <<load_tasks, fs, simple_env_data>>

\* simpleenvs.get_secure(key, default)
GlobalGetSecure(key, default) ==
  \E l \in ActiveLoaders :
    IF l = "none"
      THEN /\ last' = Call("simpleenvs.get_secure", "none", key, "ok", default)
           /\ UNCHANGED <<load_tasks, fs, StoreVars, ModuleVars, parsed_from>>
      ELSE \E r \in {get_secure(Store(l), key)} :
              /\ PutStore(l, r.s)
              /\ last' = Call("simpleenvs.get_secure", l, key, "ok", r.ret)
              /\ UNCHANGED <<load_tasks, fs, ModuleVars, parsed_from>>

\* ------------------------------------------------------------------------
\* Life cycle of one store: loads of every outcome, integrity checks, wipes,
\* while another process rewrites the file
\* ------------------------------------------------------------------------
LoadInputs ==
  {LoadOptions(DotEnv, 2), LoadOptions(TraversalPath, 2), LoadOptions(None, 2)}
VerifyPaths == {DotEnv, OtherPath}

Next ==
  \/ \E f \in Catalogue : WriteFile(DotEnv, f)
  \/ \E o \in LoadInputs : access_count["d"] < MaxAccess /\ LoadSecure("d", o)
  \/ \E p \in VerifyPaths : VerifyFileIntegrity("d", p)
  \/ SecureWipe("d")
  \/ IsLoaded("d")

Spec == Init /\ [][Next]_vars

\* ------------------------------------------------------------------------
\* Properties of the life cycle
\* ------------------------------------------------------------------------
MapGood1 ==
  [k \in {KeyA, KeyB} |-> IF k = KeyA THEN [t |-> "str", v |-> <<"x">>]
                                      ELSE [t |-> "int", v |-> <<"7">>]]
MapGood2 ==
  [k \in {KeyB, <<"C">>} |-> IF k = KeyB THEN [t |-> "bool", v |-> PyTrue]
                                         ELSE [t |-> "str", v |-> <<"q">>]]
\* The map each loadable content of the catalogue stands for
ExpectedMap(f) ==
  IF f = Good1 THEN MapGood1
  ELSE IF f = Good2 THEN MapGood2
  ELSE EmptyMap

LoadStep(l) == last'.op \in {"load_secure", "simpleenvs.load_secure"} /\ last'.loader = l

\* C1: a load_secure call that fails leaves the map exactly as it was; one that
\* succeeds leaves exactly the pairs of the new file, so no key of the previous
\* map survives unless the new file defines it.
C1_LoadAllOrNothing ==
  [][\A l \in Loaders :
       LoadStep(l) =>
         IF last'.err # "ok"
           THEN env_data'[l] = env_data[l]
           ELSE /\ env_data'[l] = ExpectedMap(parsed_from'[l].file)
                /\ parsed_from'[l].file = FileAt(parsed_from'[l].path)
                /\ \A k \in DOMAIN env_data[l] \ DOMAIN ExpectedMap(parsed_from'[l].file) :
                     k \notin DOMAIN env_data'[l]]_vars

\* A load failed on the content of the file while the store held a map
C1_Witness ==
  /\ last.op = "load_secure" /\ last.err = "FileParsingError"
  /\ env_data["d"] = MapGood1

\* C2: a load_secure call that fails changes neither the map nor the hash cache.
C2_FailedLoadKeepsHashCache ==
  [][\A l \in Loaders :
       (LoadStep(l) /\ last'.err # "ok") =>
         (env_data'[l] = env_data[l] /\ file_hashes'[l] = file_hashes[l])]_vars

\* C3: after a load_secure call that returns without error, is_loaded() is true.
C3_LoadedAfterSuccess ==
  (last.op = "load_secure" /\ last.err = "ok") => is_loaded(Store(last.loader))

\* C4: secure_wipe leaves an empty map, an empty hash cache and an empty journal;
\* afterwards is_loaded() is false, get_secure misses every key that was present
\* and verify_file_integrity is false for every path that was tracked.
C4_WipeClears ==
  [][\A l \in Loaders :
       (last'.op = "secure_wipe" /\ last'.loader = l) =>
         /\ env_data'[l] = EmptyMap
         /\ file_hashes'[l] = EmptyMap
         /\ access_log'[l] = <<>>
         /\ ~(is_loaded(Store(l)))'
         /\ \A k \in DOMAIN env_data[l] : (get_secure(Store(l), k).ret)' = NoneVal
         /\ \A p \in DOMAIN file_hashes[l] : ~(verify_file_integrity(Store(l), p).ret)']_vars

\* A wipe of a store that held keys, a tracked unchanged file and journal entries
C4_Witness ==
  /\ last.op = "secure_wipe" /\ last.ret.v = {KeyA, KeyB}
  /\ FileAt(DotEnv) = Good1
  /\ access_count["d"] > 0 /\ access_log["d"] = <<>>

\* C6: verify_file_integrity raises IntegrityError when the path is tracked and
\* readable and the recomputed hash differs from the stored one.
C6_TamperRaisesIntegrity ==
  (/\ last.op = "verify_file_integrity"
   /\ last.arg \in DOMAIN file_hashes[last.loader]
   /\ calculate_file_hash(last.arg).err = "ok"
   /\ calculate_file_hash(last.arg).hash # file_hashes[last.loader][last.arg])
  => last.err = "IntegrityError"

\* C7: verify_file_integrity(F) is true exactly while F is the file of the last
\* successful load and its content is the content that load hashed; for any
\* other path, and once the content has changed, it is not true.
C7_VerifyTrueOnlyForLoadedContent ==
  \A l \in Loaders : \A p \in VerifyPaths :
    verify_file_integrity(Store(l), p).ret
      <=> (parsed_from[l].path = p /\ FileAt(p) = parsed_from[l].file)

\* ------------------------------------------------------------------------
\* The journal: one store, loaded once, read until the journal is full and
\* beyond, wiped at any point
\* ------------------------------------------------------------------------
NextJournal ==
  \/ WriteFile(DotEnv, Good1)
  \/ access_count["d"] < 1 /\ LoadSecure("d", LoadOptions(DotEnv, 2))
  \/ access_count["d"] < MaxJournal /\ GetSecure("d", KeyA)
  \/ SecureWipe("d")

SpecJournal == Init /\ [][NextJournal]_vars

\* C8: the journal holds at most 100 entries; they are the most recently
\* appended ones in append order, with sequence numbers increasing by 1 up to
\* the current access counter.
C8_JournalBoundedOrdered ==
  \A l \in Loaders :
    LET log == get_access_log(Store(l))
    IN /\ Len(log) <= 100
       /\ \A i \in 1..Len(log) : log[i].access_count = access_count[l] - Len(log) + i

\* The journal is full and its oldest entries have been evicted
C8_Witness ==
  /\ Len(access_log["d"]) = 100
  /\ access_log["d"][1].access_count = 3
  /\ access_log["d"][100].access_count = 102

\* ------------------------------------------------------------------------
\* Accessors and session of one store in its Empty, Loaded and wiped states
\* ------------------------------------------------------------------------
AccessKeys == {KeyA, KeyZ}
DefaultStr == StrVal(<<"d","f">>)
DefaultInt == [t |-> "int", v |-> <<"5">>]
AccessorOps ==
  {"get_secure", "get_with_default_secure", "get_int_secure", "get_bool_secure",
   "get_str_secure", "get_all_keys_secure", "get_all_secure"}

NextAccess ==
  \/ WriteFile(DotEnv, Good1)
  \/ access_count["d"] < MaxAccessorCalls /\ LoadSecure("d", LoadOptions(DotEnv, 2))
  \/ SecureWipe("d")
  \/ \E k \in AccessKeys : access_count["d"] < MaxAccessorCalls /\ GetSecure("d", k)
  \/ \E k \in AccessKeys :
       access_count["d"] < MaxAccessorCalls /\ GetWithDefaultSecure("d", k, DefaultStr)
  \/ \E k \in AccessKeys :
       access_count["d"] < MaxAccessorCalls /\ GetIntSecure("d", k, DefaultInt)
  \/ \E k \in AccessKeys :
       access_count["d"] < MaxAccessorCalls /\ GetBoolSecure("d", k, BoolVal(TRUE))
  \/ \E k \in AccessKeys :
       access_count["d"] < MaxAccessorCalls /\ GetStrSecure("d", k, DefaultStr)
  \/ access_count["d"] < MaxAccessorCalls /\ GetAllKeysSecure("d")
  \/ access_count["d"] < MaxAccessorCalls /\ GetAllSecure("d")

SpecAccess == Init /\ [][NextAccess]_vars

\* C9: every accessor call appends exactly one journal entry, increases the
\* access counter by exactly 1, hit or miss, and leaves the map unchanged.
C9_AccessorJournalsOnce ==
  [][\A l \in Loaders :
       (last'.op \in AccessorOps /\ last'.loader = l) =>
         /\ access_count'[l] = access_count[l] + 1
         /\ env_data'[l] = env_data[l]
         /\ Len(access_log'[l]) = Min(Len(access_log[l]) + 1, 100)
         /\ access_log'[l][Len(access_log'[l])].access_count = access_count'[l]
         /\ access_log'[l][Len(access_log'[l])].key = last'.arg
         /\ Len(access_log[l]) < 100 =>
              SubSeq(access_log'[l], 1, Len(access_log[l])) = access_log[l]]_vars

\* A defaulted lookup missed in a wiped store and was journaled
C9_Witness ==
  /\ last.op = "get_with_default_secure" /\ last.arg = KeyZ /\ last.ret = DefaultStr
  /\ ~is_loaded(Store("d"))
  /\ Len(access_log["d"]) = 1 /\ access_count["d"] = 4

\* C10 as claimed: load_secure and the accessors keep the session id, and
\* secure_wipe ends the session: afterwards get_security_info reports another
\* session id.
C10_WipeEndsSession ==
  [][\A l \in Loaders :
       /\ (last'.op \in AccessorOps \cup {"load_secure"} /\ last'.loader = l) =>
            session_id'[l] = session_id[l]
       /\ (last'.op = "secure_wipe" /\ last'.loader = l) =>
            (get_security_info(Store(l)).session_id)' # get_security_info(Store(l)).session_id]_vars

\* C10 amended: load_secure, the accessors and secure_wipe all keep the session:
\* after secure_wipe get_security_info reports the session id and the access
\* counter it reported before.
C10_SessionOutlivesWipe ==
  [][\A l \in Loaders :
       (last'.op \in AccessorOps \cup {"load_secure", "secure_wipe"} /\ last'.loader = l) =>
         /\ (get_security_info(Store(l)).session_id)' = get_security_info(Store(l)).session_id
         /\ last'.op = "secure_wipe" =>
              (get_security_info(Store(l)).access_count)' = get_security_info(Store(l)).access_count]_vars

\* A loaded store has been wiped and then read
C10_Witness ==
  /\ last.op = "get_secure" /\ last.ret = NoneVal
  /\ access_count["d"] = 4 /\ Len(access_log["d"]) = 1
  /\ get_security_info(Store("d")).session_id = 1

\* ------------------------------------------------------------------------
\* The process environment: the caller's store, the module-level secure API
\* and the simple loader side by side
\* ------------------------------------------------------------------------
\* The budget of journal entries of the two stores together
EnvBudget == access_count["d"] + access_count["g"] < MaxEnvAccess

NextEnv ==
  \/ WriteFile(DotEnv, Good1)
  \/ EnvBudget /\ LoadSecure("d", LoadOptions(DotEnv, 2))
  \/ EnvBudget /\ GetSecure("d", KeyA)
  \/ EnvBudget /\ GetWithDefaultSecure("d", KeyA, DefaultStr)
  \/ EnvBudget /\ GetIntSecure("d", KeyA, DefaultInt)
  \/ EnvBudget /\ GetBoolSecure("d", KeyA, BoolVal(TRUE))
  \/ EnvBudget /\ GetStrSecure("d", KeyA, DefaultStr)
  \/ EnvBudget /\ GetAllKeysSecure("d")
  \/ EnvBudget /\ GetAllSecure("d")
  \/ VerifyFileIntegrity("d", DotEnv)
  \/ SecureWipe("d")
  \/ access_count["g"] < 1 /\ GlobalLoadSecure(LoadOptions(DotEnv, 2))
  \/ EnvBudget /\ GlobalGetSecure(KeyA, DefaultStr)
  \/ \E p \in {DotEnv, None} : SimpleLoad(p, 2)

SpecEnv == Init /\ [][NextEnv]_vars

\* C5: no operation of a secure store and no call of the module-level
\* load_secure / get_secure adds, changes or removes an entry of os.environ;
\* the table changes only in a load of the simple loader, which writes the
\* parsed entries.
C5_SecurePathLeavesEnviron ==
  [][/\ os_environ' # os_environ => last'.op = "load"
     /\ (last'.op = "load" /\ last'.err = "ok") =>
          \A k \in DOMAIN simple_env_data' : os_environ'[k] = simple_env_data'[k].v]_vars

\* The module-level get_secure returned a loaded value that differs from the
\* entry of os.environ under the same key, which is as it was at the start
C5_Witness ==
  /\ last.op = "simpleenvs.get_secure" /\ last.ret = StrVal(<<"x">>)
  /\ last.loader = "g" /\ is_loaded(Store("g"))
  /\ os_environ = OsInit

\* ------------------------------------------------------------------------
\* The parse pipeline: one store, loads by explicit path (valid and invalid),
\* strict and non-strict, and by scan, over files of every kind
\* ------------------------------------------------------------------------
MaxParseAccess == 4

LineUpperScript == <<"S","=","<","S","C","R","I","P","T">>
LineBacktick == <<"B","=","x",BACKTICK>>
LineDollarBrace == <<"V","=","'","$","{","x","}","'">>
LineJavascript == <<"J","=","J","a","v","a","S","c","r","i","p","t",":">>
LineDigitKey == <<"1","K","=","x">>

UpperScript == File(<<LineAx, LineUpperScript>>, 0, TRUE)
Backtick == File(<<LineBacktick>>, 0, TRUE)
DollarBrace == File(<<LineAx, LineDollarBrace>>, 0, TRUE)
Javascript == File(<<LineJavascript, LineB7>>, 0, TRUE)
DigitKey == File(<<LineDigitKey, LineB7>>, 0, TRUE)
ParseCatalogue ==
  Catalogue \cup {UpperScript, Backtick, DollarBrace, Javascript, DigitKey}

AbsolutePath == <<"/","e">>
NulPath == <<"a",NUL>>
LongPath == [i \in 1..(MaxPathLength + 1) |-> "a"]
NonStrict(options) == [options EXCEPT !.strict_validation = FALSE]
ParseInputs ==
  {LoadOptions(DotEnv, 2), NonStrict(LoadOptions(DotEnv, 2)), LoadOptions(None, 2),
   LoadOptions(TraversalPath, 2), LoadOptions(AbsolutePath, 2),
   LoadOptions(NulPath, 2), LoadOptions(LongPath, 2)}

NextParse ==
  \/ \E f \in ParseCatalogue : WriteFile(DotEnv, f)
  \/ \E o \in ParseInputs : access_count["d"] < MaxParseAccess /\ LoadSecure("d", o)

SpecParse == Init /\ [][NextParse]_vars

\* The path is one that path validation has to reject
UnsafePath(path) ==
  \/ Contains(path, <<".",".">>)
  \/ StartsWith(path, <<"/">>)
  \/ \E i \in 1..Len(path) : path[i] = NUL

\* C11: a load_secure call with an explicit path that contains "..", starts
\* with "/" or contains a null byte is rejected by path validation before any
\* file-system operation on the path, and leaves the map and the hash cache
\* as they were.
C11_UnsafePathRejectedFirst ==
  [][\A l \in Loaders :
       (LoadStep(l) /\ last'.arg # None /\ UnsafePath(last'.arg)) =>
         /\ last'.err \in {"PathTraversalError", "InvalidInputError"}
         /\ last'.cause = last'.err
         /\ last'.file_ops = <<>>
         /\ env_data'[l] = env_data[l]
         /\ file_hashes'[l] = file_hashes[l]]_vars

\* A loaded store rejected a path with a null byte while a file was on disk
C11_Witness ==
  /\ last.op = "load_secure" /\ last.arg = NulPath /\ last.err = "InvalidInputError"
  /\ env_data["d"] = MapGood1 /\ DotEnv \in DOMAIN file_hashes["d"]
  /\ FileAt(DotEnv) = Good1

\* ------------------------------------------------------------------------
\* The validators and value parsers on their own: each action applies one of
\* them to an input and records the outcome as the last call
\* ------------------------------------------------------------------------
MaxPureAccess == 1

\* str.upper()
UpperChar(c) ==
  IF c \in LowerLetters
    THEN UpperSeq[CHOOSE i \in 1..26 : LowerSeq[i] = c]
    ELSE c
UpperOf(s) == [i \in 1..Len(s) |-> UpperChar(s[i])]

Path1024 == [i \in 1..MaxPathLength |-> "a"]
PathInputs ==
  {DotEnv, OtherPath, Path1024, TraversalPath, AbsolutePath, NulPath, LongPath,
   TraversalPath \o <<NUL>>, <<".",".">> \o LongPath}

SafeValues == {<<"x">>, <<"s","h","e","l","l">>, <<"T","r","u","e">>, <<"$">>, <<"d","a","t","a">>}
ValueInputs ==
  SafeValues
    \cup {<<"x">> \o p : p \in DANGEROUS_PATTERNS}
    \cup {UpperOf(p) \o <<"y">> : p \in DANGEROUS_PATTERNS}

Key129 == [i \in 1..(MAX_KEY_LENGTH + 1) |-> "k"]
KeyInputs ==
  {KeyA, <<"a","-","B","_","1">>, <<"1","K">>, <<"_","A">>, <<"A",".","B">>, <<"-">>, Key129}

RawInputs ==
  {<<>>, <<" ">>, <<"1">>, <<"0">>, <<" ","1"," ">>, <<"2">>, <<"0","7">>, <<"-","5">>,
   <<"-">>, <<"t">>, <<"T","R","U","E">>, <<"Y","e","s">>, <<"o","n">>, <<"O","f","f">>,
   <<"n","u","l","l">>, <<"N","o","n","e">>, <<"x">>, <<"1",".","5">>, <<"1","x">>,
   <<"t","r","u","e","1">>, Max63, Min63, <<"-">> \o Min63, <<"-">> \o Past63,
   <<"0">> \o Max63, <<"$","(","1",")">>}

\* self.__validate_path_security(path) on store l
ValidatePathSecure(l, path) ==
  \E r \in {validate_path_security(Store(l), path)} :
    /\ PutStore(l, r.s)
    /\ last' = Call("validate_path_security", l, path, r.err, NoneVal)
    /\ UNCHANGED <<load_tasks, fs, ModuleVars, parsed_from>>

\* An application of a function without side effects
Apply(op, arg, err, ret) ==
  /\ last' = Call(op, "none", arg, err, ret)
  /\ UNCHANGED <<load_tasks, fs, StoreVars, ModuleVars, parsed_from>>

ValidatePathUtils(path) ==
  Apply("utils.validate_path_security", path, utils_validate_path_security(path), NoneVal)
ValidateValueSecurity(value) ==
  Apply("utils.validate_value_security", <<KeyA, value>>, validate_value_security(value), NoneVal)
ValidateKeyValue(key, value) ==
  Apply("validate_key_value", <<key, value>>, validate_key_value(key, value), NoneVal)
ValidateContentBatch(key, value) ==
  Apply("validate_content_security_batch", <<key, value>>,
        validate_content_security_batch(Join(<<key \o <<"=">> \o value>>)), NoneVal)
ValidateKeyFormat(key, strict) ==
  Apply("utils.validate_key_format", key, validate_key_format(key, strict), BoolVal(strict))
ParseValueSecure(raw) ==
  Apply("parse_value_secure", raw, "ok", parse_value_secure(raw))
ParseEnvValue(raw, strict) ==
  \E r \in {parse_env_value(raw, strict)} :
    /\ last' = [Call("utils.parse_env_value", "none", raw, r.err, r.val) EXCEPT !.strict = strict]
    /\ UNCHANGED <<load_tasks, fs, StoreVars, ModuleVars, parsed_from>>

NextPure ==
  \/ \E path \in PathInputs :
       access_count["d"] < MaxPureAccess /\ ValidatePathSecure("d", path)
  \/ \E path \in PathInputs : ValidatePathUtils(path)
  \/ \E value \in ValueInputs : ValidateValueSecurity(value)
  \/ \E key \in KeyInputs, value \in ValueInputs : ValidateKeyValue(key, value)
  \/ \E value \in ValueInputs : ValidateContentBatch(KeyA, value)
  \/ \E key \in KeyInputs, strict \in BOOLEAN : ValidateKeyFormat(key, strict)
  \/ \E raw \in RawInputs : ParseValueSecure(raw)
  \/ \E raw \in RawInputs, strict \in BOOLEAN : ParseEnvValue(raw, strict)

SpecPure == Init /\ [][NextPure]_vars

PathValidators == {"validate_path_security", "utils.validate_path_security"}
HasNul(path) == \E i \in 1..Len(path) : path[i] = NUL

ValueValidators ==
  {"utils.validate_value_security", "validate_key_value", "validate_content_security_batch"}

\* C13: a value (or file content) that contains any upper/lower-case variant
\* of any member of DANGEROUS_PATTERNS is rejected with InvalidInputError by
\* validate_value_security, by the per-pair check and by the batch check.
C13_CaseInsensitiveRejects ==
  (/\ last.op \in ValueValidators
   /\ \E p \in DANGEROUS_PATTERNS : Contains(Lower(last.arg[2]), Lower(p)))
  => last.err = "InvalidInputError"

\* ------------------------------------------------------------------------
\* Properties of the parse pipeline
\* ------------------------------------------------------------------------
\* The key and the value the line loop of __parse_file_secure takes from a
\* line, and whether it takes a pair from the line at all
IsPairLine(raw) ==
  \E line \in {Strip(raw)} :
    line # <<>> /\ ~StartsWith(line, <<"#">>) /\ FirstEq(line) # 0
LineKey(raw) ==
  LET line == Strip(raw) IN Strip(SubSeq(line, 1, FirstEq(line) - 1))
LineValue(raw) ==
  LET line == Strip(raw) IN Unquote(Strip(SubSeq(line, FirstEq(line) + 1, Len(line))))

InjectionMarkers ==
  {<<"$","(">>, <<BACKTICK>>, <<"$","{">>, <<"<","s","c","r","i","p","t">>,
   <<"j","a","v","a","s","c","r","i","p","t",":">>}
HasMarker(value) == \E v \in {Lower(value)} : \E p \in InjectionMarkers : Contains(v, p)
MarkedLines(f) == {i \in 1..Len(f.lines) : IsPairLine(f.lines[i]) /\ HasMarker(LineValue(f.lines[i]))}

\* C14: no string value of a secure map contains "$(", a backtick, "${",
\* "<script" or "javascript:"; a load of a file in which a value contains one
\* of them fails, and both the batch check alone and the per-value check
\* alone reject it.
C14_InjectionNeverLoads ==
  /\ \A l \in Loaders : \A k \in DOMAIN env_data[l] :
       env_data[l][k].t = "str" => ~HasMarker(env_data[l][k].v)
  /\ (/\ last.op = "load_secure" /\ last.arg = DotEnv
      /\ FileAt(DotEnv).kind = "file" /\ MarkedLines(FileAt(DotEnv)) # {})
     => \E f \in {FileAt(DotEnv)} :
          /\ last.err # "ok"
          /\ validate_content_security_batch(Join(f.lines)) = "InvalidInputError"
          /\ \A i \in MarkedLines(f) :
               validate_key_value(LineKey(f.lines[i]), LineValue(f.lines[i]))
                 = "InvalidInputError"

\* A loaded store refused to reload from a file with an upper-case script tag
C14_Witness ==
  /\ last.op = "load_secure" /\ last.arg = DotEnv /\ last.err = "FileParsingError"
  /\ FileAt(DotEnv) = UpperScript
  /\ env_data["d"] = MapGood1

\* C15: every key of a secure map starts with a letter, contains only letters,
\* digits, "_" and "-", and is at most MAX_KEY_LENGTH characters long.
C15_StoredKeysWellFormed ==
  \A l \in Loaders : \A k \in DOMAIN env_data[l] :
    /\ Len(k) >= 1 /\ Len(k) <= 128
    /\ k[1] \in Upper \cup LowerLetters
    /\ \A i \in 1..Len(k) : k[i] \in Upper \cup LowerLetters \cup Digits \cup {"_", "-"}

\* C16: when the batch check, the key check, the value check or the line-count
\* limit fails with InvalidInputError, load_secure raises InvalidInputError.
C16_ValidationErrorUnchanged ==
  (last.op = "load_secure" /\ last.cause = "InvalidInputError")
    => last.err = "InvalidInputError"

\* C17: whichever step ends the parse of the file of a load_secure call, the
\* call appends a file_parse journal entry for that file whose success flag
\* is the outcome.
C17_ParseOutcomeJournaled ==
  [][\A l \in Loaders :
       (LoadStep(l) /\ last'.arg # None) =>
         \E i \in 1..Len(access_log'[l]) :
           /\ access_log'[l][i].access_count > access_count[l]
           /\ access_log'[l][i].operation = "file_parse"
           /\ access_log'[l][i].key = last'.arg
           /\ access_log'[l][i].success = (last'.err = "ok")]_vars

\* The lines of f whose pair passes the per-pair check
ValidLines(f) ==
  {i \in 1..Len(f.lines) :
     /\ Len(f.lines[i]) <= MAX_LINE_LENGTH /\ IsPairLine(f.lines[i])
     /\ validate_key_value(LineKey(f.lines[i]), LineValue(f.lines[i])) = "ok"}
InvalidLines(f) ==
  {i \in 1..Len(f.lines) :
     /\ Len(f.lines[i]) <= MAX_LINE_LENGTH /\ IsPairLine(f.lines[i])
     /\ validate_key_value(LineKey(f.lines[i]), LineValue(f.lines[i])) # "ok"}

\* C19: a load of a file with a line whose key or value fails validation fails
\* under strict_validation=true; under strict_validation=false it succeeds,
\* skips that line and loads the valid lines.
C19_StrictSelectsFailureMode ==
  (/\ last.op = "load_secure" /\ last.arg = DotEnv
   /\ FileAt(DotEnv).kind = "file" /\ FileAt(DotEnv).utf8
   /\ validate_content_security_batch(Join(FileAt(DotEnv).lines)) = "ok"
   /\ InvalidLines(FileAt(DotEnv)) # {})
  => \E f \in {FileAt(DotEnv)} :
       IF last.strict
         THEN last.err # "ok"
         ELSE /\ last.err = "ok"
              /\ DOMAIN env_data[last.loader] = {LineKey(f.lines[i]) : i \in ValidLines(f)}

\* ------------------------------------------------------------------------
\* Line limits: loads of files with over-long lines and with too many lines
\* ------------------------------------------------------------------------
\* Loads and reads of a run of SpecLimits are bounded by this session counter
MaxLimitAccess == 4

\* A pair line and a marked pair line of MAX_LINE_LENGTH + 1 characters
LongLine == <<"L","=">> \o [i \in 1..(MAX_LINE_LENGTH - 1) |-> "x"]
LongMarkedLine == <<"M","=","$","(">> \o [i \in 1..(MAX_LINE_LENGTH - 3) |-> "x"]

LongLineFile == File(<<LineAx, LongLine, LineB7>>, 0, TRUE)
LongLineOnly == File(<<LongLine>>, 0, TRUE)
LongMarkedFile == File(<<LineAx, LongMarkedLine>>, 0, TRUE)
\* A file of n bytes: one pair line and blank lines
SizedFile(n) == File(<<LineAx>>, n - (Len(LineAx) + 1), TRUE)
ExactSize == SizedFile(MAX_FILE_SIZE)
OverSize == SizedFile(MAX_FILE_SIZE + 1)
LimitCatalogue ==
  {Absent, Good2, CommentOnly, TooManyLines, LongLineFile, LongLineOnly, LongMarkedFile,
   EmptyFile, ExactSize, OverSize}

NextLimits ==
  \/ \E f \in LimitCatalogue : WriteFile(DotEnv, f)
  \/ access_count["d"] < MaxLimitAccess /\ LoadSecure("d", LoadOptions(DotEnv, MAX_SCAN_DEPTH))
  \/ \E k \in {KeyA, <<"L">>} : access_count["d"] < MaxLimitAccess /\ GetSecure("d", k)

SpecLimits == Init /\ [][NextLimits]_vars

\* Lines of f longer than MAX_LINE_LENGTH
LongLines(f) == {i \in 1..Len(f.lines) : Len(f.lines[i]) > MAX_LINE_LENGTH}
ShortLines(f) == (1..Len(f.lines)) \ LongLines(f)
\* The content check finds nothing in the line
CleanLine(raw) == validate_content_security_batch(raw) = "ok"
\* f is a readable text file within the line-count limit whose lines of
\* permitted length are all acceptable
ShortLinesAcceptable(f) ==
  /\ f.kind = "file" /\ f.utf8 /\ LineCount(f) <= MaxLines
  /\ \A i \in ShortLines(f) :
       /\ CleanLine(f.lines[i])
       /\ IsPairLine(f.lines[i]) =>
            validate_key_value(LineKey(f.lines[i]), LineValue(f.lines[i])) = "ok"
\* The map the lines of permitted length of f give (keys of the model's files
\* are distinct)
ShortLinesLoaded(f, env) ==
  /\ DOMAIN env = {LineKey(f.lines[i]) : i \in {j \in ShortLines(f) : IsPairLine(f.lines[j])}}
  /\ \A i \in ShortLines(f) :
       IsPairLine(f.lines[i]) =>
         env[LineKey(f.lines[i])] = parse_value_secure(LineValue(f.lines[i]))
  /\ \A i \in LongLines(f) : LineKey(f.lines[i]) \notin DOMAIN env

\* C18 as stated: a load of a file with more than 10,000 lines fails and
\* leaves the map untouched; a load of a file with a line longer than
\* MAX_LINE_LENGTH, whose other lines are acceptable, succeeds, the over-long
\* line contributes no key and every other valid line is in the map.
C18_LongLineAlwaysSkipped ==
  [][\A f \in {FileAt(DotEnv)} :
       (LoadStep("d") /\ last'.arg = DotEnv /\ f.kind = "file") =>
         /\ LineCount(f) > MaxLines =>
              last'.err # "ok" /\ env_data'["d"] = env_data["d"]
         /\ (ShortLinesAcceptable(f) /\ LongLines(f) # {}) =>
              last'.err = "ok" /\ ShortLinesLoaded(f, env_data'["d"])]_vars

\* C18 amended: as above, for an over-long line that carries no injection
\* marker; the content check scans the whole text, over-long lines included,
\* so a marker in an over-long line fails the load.
C18_LineLimits ==
  [][\A f \in {FileAt(DotEnv)} :
       (LoadStep("d") /\ last'.arg = DotEnv /\ f.kind = "file") =>
         /\ LineCount(f) > MaxLines =>
              last'.err # "ok" /\ env_data'["d"] = env_data["d"]
         /\ (ShortLinesAcceptable(f) /\ LongLines(f) # {}
               /\ \A i \in LongLines(f) : CleanLine(f.lines[i])) =>
              last'.err = "ok" /\ ShortLinesLoaded(f, env_data'["d"])
         /\ (f.utf8 /\ \E i \in LongLines(f) : HasMarker(f.lines[i])) =>
              last'.err # "ok" /\ env_data'["d"] = env_data["d"]]_vars

\* A load of the file with an over-long line between two valid lines has
\* succeeded and the map holds exactly the two valid lines
C18_Witness ==
  /\ last.op = "load_secure" /\ last.err = "ok"
  /\ FileAt(DotEnv) = LongLineFile
  /\ parsed_from["d"].file = LongLineFile
  /\ env_data["d"] = MapGood1
  /\ <<"L">> \notin DOMAIN env_data["d"]

\* ------------------------------------------------------------------------
\* Properties of value parsing (SpecPure)
\* ------------------------------------------------------------------------
ValueParsers == {"parse_value_secure", "utils.parse_env_value"}
BooleanWords == TRUE_VALUES \cup FALSE_VALUES

\* The first-match precedence: ret is the value the trimmed raw text gives
\* when the boolean sets are tried before the integer form
FirstMatch(raw, ret) ==
  \E value \in {Strip(raw)} : \E low \in {Lower(value)} :
    /\ ret = BoolVal(TRUE) <=> low \in TRUE_VALUES
    /\ ret = BoolVal(FALSE) <=> low \in FALSE_VALUES
    /\ ret.t = "bool" => low \in BooleanWords
    /\ ret.t = "int" => low \notin BooleanWords /\ LooksInteger(value)
    /\ (low \notin BooleanWords /\ LooksInteger(value) /\ InRange64(value)) =>
         ret = IntVal(value)

\* C20 as stated: in both parsers a value that parses gives Boolean true iff
\* its trimmed lower-case form is in TRUE_VALUES, Boolean false iff it is in
\* FALSE_VALUES (the empty value included), an Integer only otherwise, and
\* never a Boolean outside the two sets.
C20_FirstMatchEverywhere ==
  (last.op \in ValueParsers /\ last.err = "ok") => FirstMatch(last.arg, last.ret)

\* C20 amended: the same precedence, except that parse_env_value returns the
\* empty String for a value that is empty after trimming, before it consults
\* the boolean sets; __parse_value_secure gives Boolean false for it.
C20_FirstMatchPrecedence ==
  (last.op \in ValueParsers /\ last.err = "ok") =>
    IF last.op = "utils.parse_env_value" /\ Strip(last.arg) = <<>>
      THEN last.ret = StrVal(<<>>)
      ELSE FirstMatch(last.arg, last.ret)

\* The secure parser has turned " 1 " into Boolean true, not into an Integer
C20_Witness ==
  /\ last.op = "parse_value_secure"
  /\ last.arg = <<" ","1"," ">>
  /\ last.ret = BoolVal(TRUE)

\* The three outcomes of a value parser for an out-of-range integer text
KeptAsString(value) == last.err = "ok" /\ last.ret = StrVal(value)
RaisedTypeConversion == last.err = "TypeConversionError"
StrictParse == last.op = "utils.parse_env_value" /\ last.strict

MaxTextLines == 2

\* Values a map to export can hold: Booleans, in-range Integers, Strings
ExportValues ==
  {BoolVal(TRUE), BoolVal(FALSE),
   IntVal(<<"7">>), IntVal(<<"1">>), IntVal(<<"0">>), IntVal(<<"-","5">>), IntVal(Max63),
   StrVal(<<"x">>), StrVal(<<>>), StrVal(<<"a"," ","b">>), StrVal(<<"q","\"","r">>),
   StrVal(<<"y","e","s">>), StrVal(<<"1","2">>), StrVal(<<"1",".","5">>)}
ExportKeys == {KeyA, KeyB}
ExportMaps == UNION {[ks -> ExportValues] : ks \in SUBSET ExportKeys}

\* Lines of the texts to parse
TextLines ==
  {<<>>, <<" ">>, LineComment, LineNoEq, LineAx, LineB7, LineCq, LineBadKey, LineDanger,
   <<"=","v">>, <<"A","=">>, <<"A","=","'">>, <<"A","=","1",".","x">>,
   <<"B","=">> \o Min63}
Texts == {JoinLines(ls) : ls \in UNION {[1..n -> TextLines] : n \in 0..MaxTextLines}}

\* parse_env_content(export_to_env_format(m)), non-strict
ExportRoundTrip(m) ==
  \E text \in {export_to_env_format(m)} :
    \E r \in {parse_env_content(SplitLines(text), FALSE)} :
      /\ last' = [Call("utils.export_to_env_format", "none", m, r.err, r.env)
                    EXCEPT !.strict = FALSE]
      /\ UNCHANGED <<load_tasks, fs, StoreVars, ModuleVars, parsed_from>>

\* parse_env_content(text, strict)
ParseEnvContent(text, strict) ==
  \E r \in {parse_env_content(SplitLines(text), strict)} :
    /\ last' = [Call("utils.parse_env_content", "none", text, r.err, r.env)
                  EXCEPT !.strict = strict]
    /\ UNCHANGED <<load_tasks, fs, StoreVars, ModuleVars, parsed_from>>

NextText ==
  \/ \E m \in ExportMaps : ExportRoundTrip(m)
  \/ \E text \in Texts, strict \in BOOLEAN : ParseEnvContent(text, strict)

SpecText == Init /\ [][NextText]_vars

\* C22: for every map of Booleans, in-range Integers and Strings the text
\* export_to_env_format gives parses back, non-strictly, to the same map:
\* same keys, same values, same value types.
C22_ExportRoundTrip ==
  last.op = "utils.export_to_env_format" => last.err = "ok" /\ last.ret = last.arg

\* A line of the text from which the simple parser takes a pair
TextPairLines(text) ==
  {i \in 1..Len(SplitLines(text)) :
     IsPairLine(SplitLines(text)[i]) /\ LineKey(SplitLines(text)[i]) # <<>>}

\* C23: non-strict parse_env_content never raises on a text of blank lines,
\* comments, lines without "=" and KEY=VALUE lines without dangerous
\* substrings; it returns a map whose keys are those of the KEY=VALUE lines,
\* the other lines being skipped, and a value that is no number stays a String.
C23_NonStrictTotal ==
  (last.op = "utils.parse_env_content" /\ ~last.strict) =>
    \E lines \in {SplitLines(last.arg)} :
      /\ last.err = "ok"
      /\ DOMAIN last.ret = {LineKey(lines[i]) : i \in TextPairLines(last.arg)}
      /\ \A k \in DOMAIN last.ret : last.ret[k].t \in {"bool", "int", "float", "str"}
      /\ lines # <<>> /\ lines[Len(lines)] = <<"A","=","1",".","x">> =>
           last.ret[KeyA] = StrVal(<<"1",".","x">>)

\* A text with a line without "=", an out-of-range integer and a malformed
\* number has been parsed non-strictly
C23_Witness ==
  /\ last.op = "utils.parse_env_content" /\ ~last.strict
  /\ last.arg = JoinLines(<<LineNoEq, <<"B","=">> \o Min63>>)
  /\ last.err = "ok"
  /\ last.ret = [k \in {KeyB} |-> StrVal(Min63)]

\* C24: a load of a regular file of 0 bytes fails with InvalidInput and one of
\* more than MAX_FILE_SIZE bytes with FileSize, both leaving the map and the
\* hash cache as they were; a file of 1..MAX_FILE_SIZE bytes, the boundary
\* included, passes the metadata validation: its hash is taken and cached.
C24_FileSizeBoundary ==
  [][\A f \in {FileAt(DotEnv)} :
       (LoadStep("d") /\ last'.arg = DotEnv /\ f.kind = "file") =>
         /\ FileSize(f) = 0 =>
              /\ last'.err = "InvalidInputError"
              /\ env_data'["d"] = env_data["d"] /\ file_hashes'["d"] = file_hashes["d"]
         /\ FileSize(f) > MAX_FILE_SIZE =>
              /\ last'.err = "FileSizeError"
              /\ env_data'["d"] = env_data["d"] /\ file_hashes'["d"] = file_hashes["d"]
         /\ (FileSize(f) > 0 /\ FileSize(f) <= MAX_FILE_SIZE) =>
              /\ last'.err # "FileSizeError"
              /\ DotEnv \in DOMAIN file_hashes'["d"]
              /\ file_hashes'["d"][DotEnv] = Sha256(f)]_vars

\* A file of exactly MAX_FILE_SIZE bytes has passed the metadata validation
C24_Witness ==
  /\ last.op = "load_secure" /\ last.arg = DotEnv
  /\ FileAt(DotEnv) = ExactSize /\ FileSize(ExactSize) = MAX_FILE_SIZE
  /\ last.err # "FileSizeError"
  /\ DotEnv \in DOMAIN file_hashes["d"]
  /\ file_hashes["d"][DotEnv] = Sha256(ExactSize)

\* ------------------------------------------------------------------------
\* Scan: loads without a path in a working directory with subdirectories
\* ------------------------------------------------------------------------
\* Loads of a run of SpecScan are bounded by this session counter
MaxScanAccess == 1

\* max_depth values a caller passes
ScanDepths == {0 - 1, 0, 1} \cup {MAX_SCAN_DEPTH - 1, MAX_SCAN_DEPTH, MAX_SCAN_DEPTH + 2}

\* What another process can create at each path
ScanContents ==
  [p \in FsPaths |->
     IF p = DotEnv THEN {Good1, SymlinkFile, Directory}
     ELSE IF p \in {PathABEnv, PathABCDEnv, PathCEnv, PathHEnv} THEN {Good1}
     ELSE IF p = PathA THEN {Directory, SymlinkDir}
     ELSE {Directory}]

\* The directory that holds p; the root for a path without "/"
RECURSIVE ParentOf(_)
ParentOf(p) ==
  IF p = <<>> THEN CwdPath
  ELSE IF p[Len(p)] = "/" THEN SubSeq(p, 1, Len(p) - 1)
  ELSE ParentOf(SubSeq(p, 1, Len(p) - 1))

\* Another process creates p inside an existing directory
CreateEntry(p, c) ==
  /\ fs[p] = Absent
  /\ IsRoot(ParentOf(p)) \/ FileAt(ParentOf(p)).kind \in {"dir", "symlink_dir"}
  /\ WriteFile(p, c)

NextScan ==
  \/ \E p \in FsPaths : \E c \in ScanContents[p] : CreateEntry(p, c)
  \/ \E k \in ScanDepths :
       access_count["d"] < MaxScanAccess /\ LoadSecure("d", LoadOptions(None, k))

SpecScan == Init /\ [][NextScan]_vars

\* Number of directories between the working directory and p
Depth(p) == Cardinality({i \in 1..Len(p) : p[i] = "/"})
\* The directories on the way from the working directory to p
Ancestors(p) == {SubSeq(p, 1, i - 1) : i \in {j \in 1..Len(p) : p[j] = "/"}}
\* The ".env" paths of the tree in pre-order: a directory's own ".env", then
\* its subdirectories in listing order
PreOrder == <<DotEnv, PathABEnv, PathABCDEnv, PathCEnv, PathHEnv>>
\* p is a regular ".env" the scan may return with depth budget k
Eligible(p, k) ==
  /\ FileAt(p).kind = "file"
  /\ Depth(p) = 0 \/ Depth(p) <= k
  /\ \A d \in Ancestors(p) : FileAt(d).kind = "dir" /\ ~StartsWith(EntryName(d, ParentOf(d)), <<".">>)
\* The first eligible path in pre-order, None when there is none
FirstEligible(k) ==
  IF \E i \in 1..Len(PreOrder) : Eligible(PreOrder[i], k)
    THEN PreOrder[CHOOSE i \in 1..Len(PreOrder) :
                    Eligible(PreOrder[i], k) /\ \A j \in 1..(i - 1) : ~Eligible(PreOrder[j], k)]
    ELSE None

\* C25: a load without a path parses the working directory's own regular
\* ".env" if there is one, otherwise the first regular ".env" in pre-order
\* that lies at most min(max_depth, MAX_SCAN_DEPTH) directories below the
\* working directory and is reached through non-symlink, non-dot-prefixed
\* directories only; when there is none the load fails with FileNotFound and
\* the map stays as it was.
C25_ScanDepthBoundedPreOrder ==
  [][(LoadStep("d") /\ last'.arg = None) =>
       \E e \in {FirstEligible(Min(last'.max_depth, MAX_SCAN_DEPTH))} :
         IF e = None
           THEN last'.err = "FileNotFoundError" /\ env_data'["d"] = env_data["d"]
           ELSE /\ last'.err = "ok"
                /\ parsed_from'["d"].path = e
                /\ Depth(e) <= MAX_SCAN_DEPTH
                /\ Depth(e) = 0 \/ Depth(e) <= last'.max_depth
                /\ env_data'["d"] = MapGood1]_vars

\* With max_depth above MAX_SCAN_DEPTH and regular ".env" files in a/b, in
\* a/b/c/d and in c, the load has parsed a/b/.env
C25_Witness ==
  /\ last.op = "load_secure" /\ last.arg = None /\ last.err = "ok"
  /\ last.max_depth > MAX_SCAN_DEPTH
  /\ FileAt(DotEnv).kind # "file"
  /\ \A p \in {PathABEnv, PathABCDEnv, PathCEnv} : FileAt(p).kind = "file"
  /\ parsed_from["d"].path = PathABEnv

\* The value get_int_secure / get_bool_secure of SpecAccess must return for
\* the stored value x when they fall back to the caller's default on every
\* value they cannot coerce
ExpectedInt(x) ==
  IF x.t = "int" THEN x
  ELSE IF x.t = "str" /\ IntLiteral(x.v).ok THEN IntVal(IntLiteral(x.v).text)
  ELSE DefaultInt
ExpectedBool(x) ==
  IF x.t = "bool" THEN x
  ELSE IF x.t = "str" /\ Lower(x.v) \in TRUE_VALUES THEN BoolVal(TRUE)
  ELSE IF x.t = "str" /\ Lower(x.v) \in FALSE_VALUES THEN BoolVal(FALSE)
  ELSE BoolVal(TRUE)

\* C26: the typed accessors never raise; get_int_secure returns the stored
\* Integer or the integer a stored String reads as, get_bool_secure the stored
\* Boolean or the boolean a stored String reads as; for a missing key and for
\* a stored value that cannot be coerced (a String that is no number, or no
\* boolean word) they return the caller's default.
C26_TypedAccessorsFallBack ==
  \A l \in Loaders :
    (last.loader = l /\ last.op \in {"get_int_secure", "get_bool_secure"}) =>
      \E x \in {MapGet(env_data[l], last.arg)} :
        /\ last.err = "ok"
        /\ last.op = "get_int_secure" /\ x.t # "bool" => last.ret = ExpectedInt(x)
        /\ last.op = "get_bool_secure" => last.ret = ExpectedBool(x)

\* ------------------------------------------------------------------------
\* Module: the module-level secure API next to a store of the caller
\* ------------------------------------------------------------------------
\* Journal entries of the two stores together in a run of SpecModule
MaxModuleAccess == 4
\* Session identifiers handed out in a run of SpecModule
MaxModuleSessions == 3

LineFalse == <<"F","=","f","a","l","s","e">>
LineZero == <<"N","=","0","0">>
Falsy == File(<<LineAx, LineFalse, LineZero>>, 0, TRUE)
KeyF == <<"F">>
KeyN == <<"N">>
ModuleKeys == {KeyA, KeyF, KeyN, KeyZ}

\* Python truthiness of a value: None, False, 0 and "" are falsy
Truthy(x) ==
  /\ x.t # "none"
  /\ x # BoolVal(FALSE)
  /\ ~(x.t = "int" /\ x.v = <<"0">>)
  /\ ~(x.t = "str" /\ x.v = <<>>)

\* simpleenvs_python._find_secure_loader_in_memory: the stores it may return
\* ("none" for None); the order of gc.get_objects() decides among them
FoundInMemory ==
  IF \E l \in InMemory : DOMAIN env_data[l] # {}
    THEN {l \in InMemory : DOMAIN env_data[l] # {}}
    ELSE {"none"}

\* simpleenvs_python.get_secure(key, default), that module's own global
\* _secure_loader being None
PyGetSecure(key, default) ==
  \E l \in FoundInMemory :
    IF l = "none"
      THEN /\ last' = Call("simpleenvs_python.get_secure", "none", key, "ok", default)
           /\ UNCHANGED <<load_tasks, fs, StoreVars, ModuleVars, parsed_from>>
      ELSE \E r \in {get_secure(Store(l), key)} :
              /\ PutStore(l, r.s)
              /\ last' = Call("simpleenvs_python.get_secure", l, key, "ok",
                              IF Truthy(r.ret) THEN r.ret ELSE default)
              /\ UNCHANGED <<load_tasks, fs, ModuleVars, parsed_from>>

\* simpleenvs.clear()
Clear ==
  /\ simple_env_data' = EmptyMap
  /\ IF secure_loader # "none"
       THEN /\ \E s \in {secure_wipe(Store(secure_loader))} : PutStore(secure_loader, s)
            /\ parsed_from' = [parsed_from EXCEPT ![secure_loader] = NoParse]
       ELSE UNCHANGED <<StoreVars, parsed_from>>
  /\ secure_loader' = "none"
  /\ global_loader_ref' = "none"
  /\ last' = Call("simpleenvs.clear", "none", None, "ok", NoneVal)
  /\ UNCHANGED <<load_tasks, fs, os_environ, next_session>>

\* simpleenvs.is_loaded()
ModuleIsLoaded ==
  /\ last' = Call("simpleenvs.is_loaded", "none", None, "ok",
                  BoolVal(DOMAIN simple_env_data # {}))
  /\ UNCHANGED <<load_tasks, fs, StoreVars, ModuleVars, parsed_from>>

\* simpleenvs.is_loaded_secure(): bool(_secure_manager)
ModuleIsLoadedSecure ==
  \E l \in ActiveLoaders :
    /\ last' = Call("simpleenvs.is_loaded_secure", l, None, "ok", BoolVal(l # "none"))
    /\ UNCHANGED <<load_tasks, fs, StoreVars, ModuleVars, parsed_from>>

ModuleBudget == access_count["d"] + access_count["g"] < MaxModuleAccess

NextModule ==
  \/ \E f \in {Good1, Falsy} : WriteFile(DotEnv, f)
  \/ ModuleBudget /\ LoadSecure("d", LoadOptions(DotEnv, MAX_SCAN_DEPTH))
  \/ /\ ModuleBudget /\ next_session <= MaxModuleSessions
     /\ GlobalLoadSecure(LoadOptions(DotEnv, MAX_SCAN_DEPTH))
  \/ \E k \in ModuleKeys : ModuleBudget /\ GlobalGetSecure(k, DefaultStr)
  \/ \E k \in ModuleKeys : ModuleBudget /\ PyGetSecure(k, DefaultStr)
  \/ SimpleLoad(DotEnv, MAX_SCAN_DEPTH)
  \/ SecureWipe("d")
  \/ Clear
  \/ ModuleIsLoaded
  \/ ModuleIsLoadedSecure

SpecModule == Init /\ [][NextModule]_vars

\* C27: the module-level get_secure(key, default) returns the stored value
\* when the active secure store holds the key, a falsy stored value included,
\* and the caller's default otherwise: when no store is active and when the
\* active store does not hold the key.
C27_ModuleGetOrDefault ==
  last.op \in {"simpleenvs.get_secure", "simpleenvs_python.get_secure"} =>
    IF last.loader # "none" /\ last.arg \in DOMAIN env_data[last.loader]
      THEN last.ret = env_data[last.loader][last.arg]
      ELSE last.ret = DefaultStr

\* C28: right after the module-level clear(), is_loaded() and
\* is_loaded_secure() report false, whatever stores of callers are alive.
C28_ClearUnloads ==
  [][(last.op = "simpleenvs.clear"
        /\ last'.op \in {"simpleenvs.is_loaded", "simpleenvs.is_loaded_secure"}) =>
       last'.ret = BoolVal(FALSE)]_vars

\* ------------------------------------------------------------------------
\* load_secure step by step: where the coroutine can be overtaken
\* ------------------------------------------------------------------------
MaxAsyncAccess == 3

\* __parse_file_secure reads a file below this size in place and hands the
\* read of a larger one to a worker thread, suspending the coroutine
SyncReadLimit == 1048576

\* Texts of SyncReadLimit bytes and more
Big1 == [Good1 EXCEPT !.filler = SyncReadLimit]
Big2 == [Good2 EXCEPT !.filler = SyncReadLimit]
BigDangerous == [Dangerous EXCEPT !.filler = SyncReadLimit]
AsyncPaths == {DotEnv, PathA}
AsyncContents(p) == IF p = DotEnv THEN {Absent, Good2, Big1, BigDangerous} ELSE {Big2}

\* A coroutine between two steps that holds the interpreter: no other
\* coroutine and no accessor runs before its next step
Running == \E t \in Tasks : load_tasks[t].pc \in {"validated", "sync_read"}

\* open(file_path) and file.read() of __parse_file_secure on the file found
\* at the path, then the checks and the line loop: [err, env]
read_and_parse(f) ==
  IF f.kind = "absent" THEN [err |-> "FileNotFoundError", env |-> EmptyMap]
  ELSE IF f.kind \in {"dir", "symlink_dir"} THEN [err |-> "IsADirectoryError", env |-> EmptyMap]
  ELSE parse_content_secure(f)

\* The end of load_secure that adds the parsed pairs to the map it has
complete_load_merging(s, path, f) ==
  LET r3 == read_and_parse(f)
  IN IF r3.err = "UnicodeDecodeError"
       THEN [err |-> "InvalidInputError", cause |-> r3.err,
             s |-> log_access(s, "load_failed", None, FALSE)]
     ELSE IF r3.err # "ok"
       THEN [err |-> "FileParsingError", cause |-> r3.err,
             s |-> log_access(log_access(s, "file_parse", path, FALSE),
                              "load_failed", None, FALSE)]
     ELSE [err |-> "ok", cause |-> "ok",
           s |-> log_access([log_access(s, "file_parse", path, TRUE)
                               EXCEPT !.env_data = MapUpdate(s.env_data, r3.env, DOMAIN r3.env)],
                            "load_complete", None, TRUE)]

\* The end of load_secure from the text f read at path: the rest of the try
\* block of __parse_file_secure, then the assignment of the map or the
\* load_failed entry: [err, cause, s]
complete_load(s, path, f) ==
  LET r3 == read_and_parse(f)
  IN IF r3.err = "UnicodeDecodeError"
       THEN [err |-> "InvalidInputError", cause |-> r3.err,
             s |-> log_access(s, "load_failed", None, FALSE)]
     ELSE IF r3.err # "ok"
       THEN [err |-> "FileParsingError", cause |-> r3.err,
             s |-> log_access(log_access(s, "file_parse", path, FALSE),
                              "load_failed", None, FALSE)]
     ELSE [err |-> "ok", cause |-> "ok",
           s |-> log_access([log_access(s, "file_parse", path, TRUE)
                               EXCEPT !.env_data = r3.env],
                            "load_complete", None, TRUE)]

\* The call record of a step of task t
StepCall(op, t, path, err, cause) ==
  [Call(op, "d", path, err, NoneVal) EXCEPT !.cause = cause, !.ret = [t |-> "task", v |-> t]]

\* load_secure(LoadOptions(path)) starts: the path and the file are validated
\* and the file's hash is stored; a refusal ends the call
LoadBegin(t, path) ==
  /\ ~Running
  /\ load_tasks[t].pc = "idle"
  /\ \E r1 \in {validate_path_security(Store("d"), path)} :
     \E r2 \in {validate_file_security(r1.s, path)} :
       IF r1.err # "ok" \/ r2.err # "ok"
         THEN \E r \in {IF r1.err # "ok" THEN r1 ELSE r2} :
                /\ PutStore("d", log_access(r.s, "load_failed", None, FALSE))
                /\ last' = StepCall("load_begin", t, path, r.err, r.err)
                /\ UNCHANGED load_tasks
         ELSE /\ PutStore("d", r2.s)
              /\ last' = StepCall("load_begin", t, path, "ok", "ok")
              /\ load_tasks' = [load_tasks EXCEPT ![t] =
                                  [pc |-> "validated", path |-> path, file |-> Absent]]
  /\ UNCHANGED <<fs, ModuleVars, parsed_from>>

\* The end of the call of task t on the text f
LoadFinish(t, f) ==
  \E r \in {complete_load(Store("d"), load_tasks[t].path, f)} :
    /\ PutStore("d", r.s)
    /\ parsed_from' = IF r.err = "ok"
                        THEN [parsed_from EXCEPT !["d"] = [path |-> load_tasks[t].path, file |-> f]]
                        ELSE parsed_from
    /\ last' = StepCall("load_end", t, load_tasks[t].path, r.err, r.cause)
    /\ load_tasks' = [load_tasks EXCEPT ![t] = IdleTask]
    /\ UNCHANGED <<fs, ModuleVars>>

\* Path(file_path).stat().st_size picks the way to read; a missing file ends
\* the call
LoadStat(t) ==
  /\ load_tasks[t].pc = "validated"
  /\ \E f \in {FileAt(load_tasks[t].path)} :
       IF f.kind = "absent"
         THEN LoadFinish(t, f)
         ELSE /\ load_tasks' = [load_tasks EXCEPT ![t].pc =
                                  IF f.kind \in {"file", "symlink_file"} /\ FileSize(f) >= SyncReadLimit
                                    THEN "async_read" ELSE "sync_read"]
              /\ last' = StepCall("load_stat", t, load_tasks[t].path, "ok", "ok")
              /\ UNCHANGED <<fs, StoreVars, ModuleVars, parsed_from>>

\* The read.  In place, the call runs on to its end; handed to a worker
\* thread, the text is fetched while the coroutine is suspended.  A read
\* returns the content the file has at one instant.
LoadRead(t) ==
  \/ /\ load_tasks[t].pc = "sync_read"
     /\ LoadFinish(t, FileAt(load_tasks[t].path))
  \/ /\ load_tasks[t].pc = "async_read"
     /\ load_tasks' = [load_tasks EXCEPT ![t].pc = "fetched",
                                         ![t].file = FileAt(load_tasks[t].path)]
     /\ last' = StepCall("load_read", t, load_tasks[t].path, "ok", "ok")
     /\ UNCHANGED <<fs, StoreVars, ModuleVars, parsed_from>>

\* The event loop resumes the coroutine with the text its worker fetched
LoadResume(t) ==
  /\ ~Running
  /\ load_tasks[t].pc = "fetched"
  /\ LoadFinish(t, load_tasks[t].file)

AsyncBudget == access_count["d"] < MaxAsyncAccess

NextAsync ==
  \/ \E p \in AsyncPaths : \E c \in AsyncContents(p) : WriteFile(p, c)
  \/ \E t \in Tasks, p \in AsyncPaths : AsyncBudget /\ LoadBegin(t, p)
  \/ \E t \in Tasks : LoadStat(t)
  \/ \E t \in Tasks : LoadRead(t)
  \/ \E t \in Tasks : LoadResume(t)
  \/ AsyncBudget /\ ~Running /\ GetSecure("d", KeyB)
  \/ \E p \in AsyncPaths : ~Running /\ VerifyFileIntegrity("d", p)

SpecAsync == Init /\ [][NextAsync]_vars

\* The map a loadable text stands for, whatever its filler
WholeMapOf(f) == ExpectedMap([f EXCEPT !.filler = 0])
\* The text the step that ends task t parses
TextRead(t) ==
  IF load_tasks[t].pc = "fetched" THEN load_tasks[t].file ELSE FileAt(load_tasks[t].path)
WholeMaps == {EmptyMap, MapGood1, MapGood2}

\* C29: when load_secure calls on one store interleave at the suspension of
\* the file read, the map changes only in the step that ends a successful
\* load, and becomes the complete map of the text that load read, so the load
\* that completes last decides the map; the map is never a mixture of two
\* texts, and a get_secure between the steps of a load returns its value from
\* one whole map.
C29_InterleavedLoadsWholeMap ==
  [][/\ (last'.op = "load_end" /\ last'.err = "ok") =>
          \E t \in Tasks : /\ last'.ret.v = t
                           /\ env_data'["d"] = WholeMapOf(TextRead(t))
                           /\ parsed_from'["d"].path = load_tasks[t].path
     /\ ~(last'.op = "load_end" /\ last'.err = "ok") => env_data'["d"] = env_data["d"]
     /\ env_data'["d"] \in WholeMaps
     /\ last'.op = "get_secure" =>
          /\ env_data["d"] \in WholeMaps
          /\ last'.ret = MapGet(env_data["d"], last'.arg)]_vars

\* Two loads overlap, a get_secure runs between their steps, and the load that
\* began first completes last and decides the map
C29_Witness ==
  /\ Len(access_log["d"]) = 7
  /\ [i \in 1..7 |-> access_log["d"][i].operation] =
       <<"path_validation", "path_validation", "get", "file_parse", "load_complete",
         "file_parse", "load_complete">>
  /\ access_log["d"][1].key = DotEnv /\ access_log["d"][2].key = PathA
  /\ access_log["d"][4].key = PathA /\ access_log["d"][6].key = DotEnv
  /\ env_data["d"] = MapGood1
  /\ parsed_from["d"].file = Big1

\* C30: after a successful load_secure of a path, the hash stored for the path
\* is the hash of the text that was parsed into the map, and
\* verify_file_integrity of the path returns True only while the file still
\* holds that text, whatever another process writes between the validation of
\* the file and the read of its text.
C30_HashOfParsedContent ==
  /\ (last.op = "load_end" /\ last.err = "ok") =>
        file_hashes["d"][last.arg] = Sha256(parsed_from["d"].file)
  /\ (/\ last.op = "verify_file_integrity" /\ last.ret = BoolVal(TRUE)
      /\ parsed_from["d"].path = last.arg) =>
        FileAt(last.arg) = parsed_from["d"].file

====
